---- MODULE Spec2Model ----
(***************************************************************************)
(* Smart-city controller: device registry, device-control commands with    *)
(* undo, the command invoker, the banking collaborator used by the payment *)
(* command, and the notification service (observer pattern).               *)
(*                                                                         *)
(* Python values are modelled as follows.  An Optional is a sequence of    *)
(* length 0 (None) or 1.  A dict returned to a caller is a record.  An     *)
(* f-string is the tuple of its pieces.  Money is counted in whole units;  *)
(* fee rates are per mille, and amounts are chosen so that fees are exact. *)
(***************************************************************************)
EXTENDS Integers, Sequences, FiniteSets, TLC

VARIABLES
    devices,          \* CityController._devices : device_id -> device
    cmds,             \* the command objects the caller holds (index = identity)
    history,          \* CommandInvoker._history
    undo_stack,       \* CommandInvoker._undo_stack
    balances,         \* BankingController._balances
    transactions,     \* BankingController._transactions
    observers,        \* NotificationService._observers
    notifications,    \* NotificationService._notifications
    security_alerts,  \* NotificationService._security_alerts
    records,          \* each observer's own list (_alerts, _notifications, _emergencies)
    clock,            \* datetime.now(), in ticks
    issued,           \* the ids notify() has assigned, in call order
    delivered,        \* the update() calls made on observers, in call order
    stats,            \* CityController._stats: active_devices, total_commands
    command_history,  \* CityController._command_history
    pc,               \* each request thread's position in the handler it runs
    loc,              \* each request thread's local variables
    singleton,        \* CityController._instance, its _initialized flag, the class lock
    auth,             \* AuthService: _failed_attempts, _lockout_time, _sessions of one user;
                      \* streak counts the wrong passwords since the last success or lockout
    last,             \* the most recent call: operation, arguments, what it returned
    rt                \* the registry as it was before the most recent execute of a command,
                      \* kept while nothing but the following Invoker.undo has run

devVars   == <<devices>>
cmdVars   == <<cmds, history, undo_stack>>
bankVars  == <<balances, transactions>>
notifVars == <<observers, notifications, security_alerts, records, clock, issued,
               delivered>>
ctlVars   == <<stats, command_history>>
thrVars   == <<pc, loc>>
svcVars   == <<singleton, auth>>
vars      == <<devices, cmds, history, undo_stack, balances, transactions,
               observers, notifications, security_alerts, records, clock, issued,
               delivered, stats, command_history, pc, loc, singleton, auth, last, rt>>

----------------------------------------------------------------------------
(* Bounds of the model *)

MaxCalls       == 2   \* CommandInvoker.execute calls, specification Spec
MaxLightCalls  == 3   \* CommandInvoker.execute calls, specification SpecLight
MaxSignalCalls == 3   \* CommandInvoker.execute calls, specification SpecSignal
MaxNotify      == 3   \* NotificationService.notify calls, specification SpecNotify
MaxHistory     == 3   \* CommandInvoker.execute calls, specification SpecHistory
MaxKinds       == 3   \* NotificationService.notify calls, specification SpecObservers
MaxFan         == 2   \* notify calls by the caller, specifications SpecFanOut, SpecDetach
MaxDeviceCalls == 2   \* CommandInvoker.execute calls, specification SpecDevices
MaxCommands    == 2   \* CityController.execute_command calls, specification SpecController
MaxRace        == 3   \* NotificationService.notify calls, specification SpecRace

----------------------------------------------------------------------------
(* Python helpers *)

None == <<>>
Some(x) == <<x>>
IsNone(o) == o = <<>>
Front(s) == SubSeq(s, 1, Len(s) - 1)
LastOf(s) == s[Len(s)]
Min(a, b) == IF a < b THEN a ELSE b

\* s[-k:] for k >= 0.  Python reads -0 as 0, so s[-0:] is the whole list.
SliceLast(s, k) ==
    IF k = 0 THEN s
    ELSE SubSeq(s, Len(s) - Min(k, Len(s)) + 1, Len(s))

----------------------------------------------------------------------------
(* Devices: app/models/device.py *)

ACTIVE   == "active"
INACTIVE == "inactive"

Signals == {"red", "yellow", "green"}

StreetLight   == [device_type |-> "StreetLight",   status |-> INACTIVE, brightness |-> 0]
TrafficSignal == [device_type |-> "TrafficSignal", status |-> INACTIVE, current_signal |-> "red"]
SecurityCamera == [device_type |-> "SecurityCamera", status |-> INACTIVE, recording |-> FALSE]

\* A fault C24 is to catch: an activate that switches the status alone
activate_status_only(d) == [d EXCEPT !.status = ACTIVE]

\* activate() of the three device classes; each returns True
activate(d) ==
    CASE d.device_type = "StreetLight" ->
            [d EXCEPT !.status = ACTIVE, !.brightness = 100]
      [] d.device_type = "TrafficSignal" ->
            [d EXCEPT !.status = ACTIVE, !.current_signal = "green"]
      [] d.device_type = "SecurityCamera" ->
            [d EXCEPT !.status = ACTIVE, !.recording = TRUE]

\* deactivate() of the three device classes; each returns True
deactivate(d) ==
    CASE d.device_type = "StreetLight" ->
            [d EXCEPT !.status = INACTIVE, !.brightness = 0]
      [] d.device_type = "TrafficSignal" ->
            [d EXCEPT !.status = INACTIVE, !.current_signal = "red"]
      [] d.device_type = "SecurityCamera" ->
            [d EXCEPT !.status = INACTIVE, !.recording = FALSE]

\* A fault C23 is to catch: a setter that clamps a level outside 0..100
set_brightness_clamped(d, level) ==
    LET l == IF level < 0 THEN 0 ELSE IF level > 100 THEN 100 ELSE level
    IN  [dev |-> [d EXCEPT !.brightness = l,
                           !.status = IF l > 0 THEN ACTIVE ELSE INACTIVE],
         ok  |-> TRUE]

\* A fault C22 is to catch: a setter that writes the level and not the status
set_brightness_level_only(d, level) ==
    IF 0 <= level /\ level <= 100
    THEN [dev |-> [d EXCEPT !.brightness = level], ok |-> TRUE]
    ELSE [dev |-> d, ok |-> FALSE]

\* StreetLight.set_brightness: the device afterwards and the returned bool
set_brightness(d, level) ==
    IF 0 <= level /\ level <= 100
    THEN [dev |-> [d EXCEPT !.brightness = level,
                            !.status = IF level > 0 THEN ACTIVE ELSE INACTIVE],
          ok  |-> TRUE]
    ELSE [dev |-> d, ok |-> FALSE]

\* TrafficSignal.set_signal: the device afterwards and the returned bool
set_signal(d, signal) ==
    IF signal \in Signals
    THEN [dev |-> [d EXCEPT !.current_signal = signal, !.status = ACTIVE],
          ok  |-> TRUE]
    ELSE [dev |-> d, ok |-> FALSE]

\* hasattr(device, 'set_brightness'), hasattr(device, 'set_signal')
HasSetBrightness(d) == d.device_type = "StreetLight"
HasSetSignal(d)     == d.device_type = "TrafficSignal"

\* getattr(device, 'brightness', default), getattr(device, 'current_signal', default)
GetBrightness(d, default) == IF d.device_type = "StreetLight" THEN d.brightness ELSE default
GetSignal(d, default)     == IF d.device_type = "TrafficSignal" THEN d.current_signal ELSE default

----------------------------------------------------------------------------
(* Python floats.  The banking code computes in float, IEEE 754 binary64:  *)
(* every +, - and * returns the exact result rounded to 53 significant     *)
(* bits, ties to the even neighbour.  A float is held here as its sign and *)
(* its magnitude in units of 2^-60, the magnitude as a natural number in   *)
(* base 2^15, least significant limb first and five limbs long: the fifth  *)
(* limb is the integer part, so the model holds floats of magnitude below  *)
(* 2^15 whose last bit is worth 2^-60 or more.                             *)

LimbBase == 32768
LimbBits == 15
FractionLimbs == 4
FloatLimbs == 5
MantissaBits == 53

RECURSIVE PowerOf2(_)
PowerOf2(k) == IF k = 0 THEN 1 ELSE 2 * PowerOf2(k - 1)

\* the powers of two up to a limb's base, computed once
PowersOf2 == [k \in 0..LimbBits |-> PowerOf2(k)]

Pow2(k) == PowersOf2[k]

\* a natural number without its leading zero limbs
RECURSIVE BigTrim(_)
BigTrim(a) ==
    IF a # <<>> /\ a[Len(a)] = 0 THEN BigTrim(SubSeq(a, 1, Len(a) - 1)) ELSE a

LimbAt(a, k) == IF k <= Len(a) THEN a[k] ELSE 0

RECURSIVE BigAddFrom(_, _, _, _)
BigAddFrom(a, b, k, carry) ==
    IF k > Len(a) /\ k > Len(b)
    THEN IF carry = 0 THEN <<>> ELSE <<carry>>
    ELSE LET sum == LimbAt(a, k) + LimbAt(b, k) + carry
         IN  <<sum % LimbBase>> \o BigAddFrom(a, b, k + 1, sum \div LimbBase)

BigAdd(a, b) == BigTrim(BigAddFrom(a, b, 1, 0))

\* a - b for a >= b
RECURSIVE BigSubFrom(_, _, _, _)
BigSubFrom(a, b, k, borrow) ==
    IF k > Len(a) THEN <<>>
    ELSE LET d == LimbAt(a, k) - LimbAt(b, k) - borrow
         IN  IF d < 0
             THEN <<d + LimbBase>> \o BigSubFrom(a, b, k + 1, 1)
             ELSE <<d>> \o BigSubFrom(a, b, k + 1, 0)

BigSub(a, b) == BigTrim(BigSubFrom(a, b, 1, 0))

\* a < b, for trimmed a and b
RECURSIVE BigLessFrom(_, _, _)
BigLessFrom(a, b, k) ==
    IF k = 0 THEN FALSE
    ELSE IF a[k] # b[k] THEN a[k] < b[k]
    ELSE BigLessFrom(a, b, k - 1)

BigLess(a, b) ==
    IF Len(a) # Len(b) THEN Len(a) < Len(b) ELSE BigLessFrom(a, b, Len(a))

RECURSIVE BigTimesLimb(_, _, _, _)
BigTimesLimb(a, d, k, carry) ==
    IF k > Len(a)
    THEN IF carry = 0 THEN <<>> ELSE <<carry>>
    ELSE LET p == a[k] * d + carry
         IN  <<p % LimbBase>> \o BigTimesLimb(a, d, k + 1, p \div LimbBase)

RECURSIVE BigMul(_, _)
BigMul(a, b) ==
    IF b = <<>> THEN <<>>
    ELSE IF Head(b) = 0 THEN <<0>> \o BigMul(a, Tail(b))
    ELSE BigAdd(BigTimesLimb(a, Head(b), 1, 0),
                IF Len(b) = 1 THEN <<>> ELSE <<0>> \o BigMul(a, Tail(b)))

\* the number of bits of a limb
RECURSIVE LimbLength(_)
LimbLength(d) == IF d = 0 THEN 0 ELSE 1 + LimbLength(d \div 2)

\* the number of bits of a trimmed natural number
BitLength(a) ==
    IF a = <<>> THEN 0 ELSE (Len(a) - 1) * LimbBits + LimbLength(a[Len(a)])

\* a \div 2^s, for s = limbs * LimbBits + bits, low = 2^bits and
\* high = 2^(LimbBits - bits)
ShiftRightBy(a, limbs, low, high) ==
    IF limbs >= Len(a) THEN <<>>
    ELSE BigTrim([k \in 1..(Len(a) - limbs) |->
                     (a[k + limbs] \div low)
                     + (LimbAt(a, k + limbs + 1) % low) * high])

ShiftRight(a, s) ==
    ShiftRightBy(a, s \div LimbBits, Pow2(s % LimbBits),
                 Pow2(LimbBits - (s % LimbBits)))

\* a % 2^s
LowBits(a, s) ==
    IF s \div LimbBits >= Len(a) THEN a
    ELSE BigTrim(SubSeq(a, 1, s \div LimbBits)
                 \o <<a[s \div LimbBits + 1] % Pow2(s % LimbBits)>>)

\* a * 2^s
ShiftLeft(a, s) ==
    IF a = <<>> THEN a
    ELSE [k \in 1..(s \div LimbBits) |-> 0]
         \o BigTimesLimb(a, Pow2(s % LimbBits), 1, 0)

\* the quotient q of a division by 2^s whose remainder is r, rounded to the
\* nearest integer, a remainder of half = 2^(s-1) to the even one
RoundQuotient(q, r, half) ==
    IF BigLess(half, r) \/ (r = half /\ q[1] % 2 = 1)
    THEN BigAdd(q, <<1>>) ELSE q

\* a with its last s bits rounded away: a itself where they are zero
RoundAt(a, s) ==
    IF s <= 0 THEN a
    ELSE IF LowBits(a, s) = <<>> THEN a
    ELSE ShiftLeft(RoundQuotient(ShiftRight(a, s), LowBits(a, s),
                                 ShiftLeft(<<1>>, s - 1)), s)

\* a natural number rounded to MantissaBits significant bits, a tie to the
\* even neighbour
RoundToMantissa(a) == RoundAt(a, BitLength(a) - MantissaBits)

\* a magnitude as the five limbs a float keeps
Limbs(a) == [k \in 1..FloatLimbs |-> LimbAt(a, k)]

Float(neg, a) == [neg |-> neg /\ BigTrim(a) # <<>>, mag |-> Limbs(a)]

\* float(n) for an integer 0 <= n < 2^15
FloatOf(n) == [neg |-> FALSE, mag |-> <<0, 0, 0, 0, n>>]

Magnitude(x) == BigTrim(x.mag)

\* a float without a fraction, and the integer it is
Whole(x) == \A k \in 1..FractionLimbs : x.mag[k] = 0

Signed(x) == IF x.neg THEN 0 - x.mag[FloatLimbs] ELSE x.mag[FloatLimbs]

\* x < y
FloatLess(x, y) ==
    IF Whole(x) /\ Whole(y) THEN Signed(x) < Signed(y)
    ELSE IF x.neg # y.neg THEN x.neg
    ELSE IF x.neg THEN BigLess(Magnitude(y), Magnitude(x))
    ELSE BigLess(Magnitude(x), Magnitude(y))

FloatNeg(x) == Float(~x.neg, x.mag)

\* the sum of two signed magnitudes
FloatSum(xneg, a, yneg, b) ==
    Float(IF xneg = yneg \/ ~BigLess(a, b) THEN xneg ELSE yneg,
          RoundToMantissa(IF xneg = yneg THEN BigAdd(a, b)
                          ELSE IF BigLess(a, b) THEN BigSub(b, a)
                          ELSE BigSub(a, b)))

\* float(n) for an integer -2^15 < n < 2^15
FloatOfSigned(n) ==
    IF n < 0 THEN [neg |-> TRUE, mag |-> FloatOf(0 - n).mag] ELSE FloatOf(n)

\* the sum of two whole floats is exact where it is below 2^15
WholeSum(x, n) ==
    Whole(x) /\ Signed(x) + n < LimbBase /\ Signed(x) + n > 0 - LimbBase

\* x + y
FloatAdd(x, y) ==
    IF Whole(y) /\ WholeSum(x, Signed(y))
    THEN FloatOfSigned(Signed(x) + Signed(y))
    ELSE FloatSum(x.neg, Magnitude(x), y.neg, Magnitude(y))

\* x - y
FloatSub(x, y) ==
    IF Whole(y) /\ WholeSum(x, 0 - Signed(y))
    THEN FloatOfSigned(Signed(x) - Signed(y))
    ELSE FloatSum(x.neg, Magnitude(x), ~y.neg, Magnitude(y))

\* x * y: the product of the magnitudes is in units of 2^-120
FloatMul(x, y) ==
    Float(x.neg # y.neg,
          ShiftRight(RoundToMantissa(BigMul(Magnitude(y), Magnitude(x))),
                     FractionLimbs * LimbBits))

----------------------------------------------------------------------------
(* Banking collaborator: app/controllers/banking_controller.py,            *)
(* app/models/transaction.py                                               *)

Residents == {"R001"}

\* BankingController._fee_rates: the floats the literals 0.01, 0.02 and
\* 0.015 denote
fee_rates ==
    [fiat     |-> Float(FALSE, <<10486, 7864, 22282, 327, 0>>),
     bitcoin  |-> Float(FALSE, <<20972, 15728, 11796, 655, 0>>),
     ethereum |-> Float(FALSE, <<15728, 11796, 17039, 491, 0>>)]

\* self._fee_rates.get(payment_type, 0.01)
FeeRate(payment_type) ==
    IF payment_type \in DOMAIN fee_rates THEN fee_rates[payment_type] ELSE fee_rates["fiat"]

\* self._balances.get(resident_id, 0)
BalanceOf(bal, resident_id) ==
    IF resident_id \in DOMAIN bal THEN bal[resident_id] ELSE FloatOf(0)

\* Transaction.get_total: self.amount + self.fee, the amount an int as the
\* caller gave it and the fee a float
get_total(tx) == FloatAdd(FloatOf(tx.amount), tx.fee)

\* Transaction.refund: the transaction afterwards and the returned bool
refund(tx) ==
    IF tx.status = "completed"
    THEN [tx |-> [tx EXCEPT !.status = "refunded"], ok |-> TRUE]
    ELSE [tx |-> tx, ok |-> FALSE]

\* BitcoinAdapter.process_payment / EthereumAdapter.process_payment: the
\* arithmetic in the try block cannot raise for a numeric amount
AdapterSucceeds(payment_type) == TRUE

\* The amounts the specifications pay, and for each of them and each rate
\* the product amount * fee_rate, computed once.
PaymentAmounts == {0, 7, 44, 600}

Fees ==
    [amount \in PaymentAmounts |->
        [t \in DOMAIN fee_rates |-> FloatMul(FloatOf(amount), fee_rates[t])]]

RateKey(payment_type) ==
    IF payment_type \in DOMAIN fee_rates THEN payment_type ELSE "fiat"

\* fee = amount * fee_rate, the amount an int that Python converts to float
FeeOf(amount, payment_type) ==
    IF amount \in PaymentAmounts THEN Fees[amount][RateKey(payment_type)]
    ELSE FloatMul(FloatOf(amount), FeeRate(payment_type))

\* A fault C38 is to catch: a payment taken without the balance check
process_payment_unchecked(resident_id, amount, payment_type, bal, txs) ==
    LET fee == FloatMul(FloatOf(amount), FeeRate(payment_type))
        total == FloatAdd(FloatOf(amount), fee)
        done == [transaction_id |-> Len(txs) + 1, resident_id |-> resident_id,
                 amount |-> amount,
                 type |-> IF payment_type \in {"bitcoin", "ethereum"}
                          THEN payment_type ELSE "fiat",
                 status |-> "completed", fee |-> fee]
        newbal == [r \in DOMAIN bal \cup {resident_id} |->
                      IF r = resident_id
                      THEN FloatSub(BalanceOf(bal, resident_id), total)
                      ELSE bal[r]]
    IN  [bal |-> newbal, txs |-> Append(txs, done),
         result |-> [success |-> TRUE, transaction |-> done,
                     new_balance |-> newbal[resident_id]]]

\* The body of BankingController.process_payment below the lines that
\* compute fee, total and current_balance.  A transaction id is a fresh uuid4
\* string: modelled by the transaction's position in the list.
process_payment_of(resident_id, amount, payment_type, bal, txs, fee, total, current_balance) ==
    LET transaction == [transaction_id |-> Len(txs) + 1,
                        resident_id |-> resident_id,
                        amount |-> amount,
                        type |-> IF payment_type \in {"bitcoin", "ethereum"}
                                 THEN payment_type ELSE "fiat",
                        status |-> "pending",
                        fee |-> fee]
    IN  IF FloatLess(current_balance, total)
        THEN [bal |-> bal, txs |-> txs,
              result |-> [success |-> FALSE, error |-> <<"Insufficient funds">>,
                          balance |-> current_balance, required |-> total]]
        ELSE IF payment_type \in {"bitcoin", "ethereum"} /\ ~AdapterSucceeds(payment_type)
        THEN [bal |-> bal,
              txs |-> Append(txs, [transaction EXCEPT !.status = "failed"]),
              result |-> [success |-> FALSE, error |-> <<"Crypto payment failed">>]]
        ELSE LET done == [transaction EXCEPT !.status = "completed"]
                 newbal == [r \in DOMAIN bal \cup {resident_id} |->
                               IF r = resident_id THEN FloatSub(current_balance, total)
                               ELSE bal[r]]
             IN [bal |-> newbal,
                 txs |-> Append(txs, done),
                 result |-> [success |-> TRUE, transaction |-> done,
                             new_balance |-> newbal[resident_id]]]

\* total = amount + fee; current_balance = self._balances.get(resident_id, 0)
process_payment_with(resident_id, amount, payment_type, bal, txs, fee) ==
    process_payment_of(resident_id, amount, payment_type, bal, txs, fee,
                       FloatAdd(FloatOf(amount), fee), BalanceOf(bal, resident_id))

\* BankingController.process_payment
process_payment(resident_id, amount, payment_type, bal, txs) ==
    process_payment_with(resident_id, amount, payment_type, bal, txs,
                         FeeOf(amount, payment_type))

\* BankingController.refund_transaction.  Transaction ids are unique, so the
\* loop's first match is the transaction at that position.
refund_transaction(transaction_id, bal, txs) ==
    IF \E k \in 1..Len(txs) : txs[k].transaction_id = transaction_id
    THEN LET k == CHOOSE k \in 1..Len(txs) : txs[k].transaction_id = transaction_id
             r == refund(txs[k])
         IN  IF r.ok
             THEN [bal |-> [x \in DOMAIN bal \cup {r.tx.resident_id} |->
                               IF x = r.tx.resident_id
                               THEN FloatAdd(BalanceOf(bal, x), get_total(r.tx))
                               ELSE bal[x]],
                   txs |-> [txs EXCEPT ![k] = r.tx],
                   result |-> [success |-> TRUE, refunded_amount |-> get_total(r.tx)]]
             ELSE [bal |-> bal, txs |-> txs,
                   result |-> [success |-> FALSE,
                               error |-> <<"Transaction cannot be refunded">>]]
    ELSE [bal |-> bal, txs |-> txs,
          result |-> [success |-> FALSE, error |-> <<"Transaction not found">>]]

----------------------------------------------------------------------------
(* Commands: app/commands/infrastructure_commands.py                       *)
(* A command operator takes the command object and the state it reaches    *)
(* through its controller, and gives the command object afterwards, that   *)
(* state afterwards, and the returned dict (its timestamp left out).       *)

\* the constructors
LightOnCommand(device_id, brightness) ==
    [kind |-> "LightOn", device_id |-> device_id, brightness |-> brightness,
     previous_state |-> None]
LightOffCommand(device_id) ==
    [kind |-> "LightOff", device_id |-> device_id, previous_brightness |-> None]
TrafficGreenCommand(device_id) ==
    [kind |-> "TrafficGreen", device_id |-> device_id, previous_signal |-> None]
TrafficRedCommand(device_id) ==
    [kind |-> "TrafficRed", device_id |-> device_id, previous_signal |-> None]
ProcessPaymentCommand(resident_id, amount, payment_type) ==
    [kind |-> "ProcessPayment", resident_id |-> resident_id, amount |-> amount,
     payment_type |-> payment_type, transaction_id |-> None]

\* A fault C5 is to catch: a previous state that counts as set when it is None
TruthyState_always(o) == TRUE

\* Python truth of an Optional: None is false, and so are 0 and ''; a dict
\* with keys and a uuid string are true
TruthyState(o)  == ~IsNone(o)
TruthyInt(o)    == ~IsNone(o) /\ o[1] # 0
TruthyString(o) == ~IsNone(o) /\ o[1] # ""
TruthyId(o)     == ~IsNone(o)

DeviceNotFound(device_id) == <<"Device ", device_id, " not found">>
SignalNotFound(device_id) == <<"Traffic signal ", device_id, " not found">>

\* What a device command leaves alone
Same(c, devs, result) == [cmd |-> c, devs |-> devs, result |-> result]

LightOnCommand_execute(c, devs) ==
    IF c.device_id \in DOMAIN devs
    THEN LET device == devs[c.device_id]
             on == activate(device)
             after == IF HasSetBrightness(on)
                      THEN set_brightness(on, c.brightness).dev ELSE on
         IN  [cmd |-> [c EXCEPT !.previous_state =
                          Some([status |-> device.status,
                                brightness |-> GetBrightness(device, 0)])],
              devs |-> [devs EXCEPT ![c.device_id] = after],
              result |-> [success |-> TRUE, device_id |-> c.device_id,
                          action |-> "light_on", brightness |-> c.brightness]]
    ELSE Same(c, devs, [success |-> FALSE, error |-> DeviceNotFound(c.device_id)])

LightOnCommand_undo(c, devs) ==
    IF TruthyState(c.previous_state) /\ c.device_id \in DOMAIN devs
    THEN [cmd |-> c,
          devs |-> [devs EXCEPT ![c.device_id] = deactivate(devs[c.device_id])],
          result |-> [success |-> TRUE, action |-> "undo_light_on"]]
    ELSE Same(c, devs, [success |-> FALSE, error |-> <<"No previous state to restore">>])

LightOffCommand_execute(c, devs) ==
    IF c.device_id \in DOMAIN devs
    THEN LET device == devs[c.device_id]
         IN  [cmd |-> [c EXCEPT !.previous_brightness = Some(GetBrightness(device, 100))],
              devs |-> [devs EXCEPT ![c.device_id] = deactivate(device)],
              result |-> [success |-> TRUE, device_id |-> c.device_id,
                          action |-> "light_off"]]
    ELSE Same(c, devs, [success |-> FALSE, error |-> DeviceNotFound(c.device_id)])

\* A fault C7 is to catch: an undo that switches the light on again and leaves
\* it at the full brightness activate() sets
LightOffCommand_undo_full(c, devs) ==
    IF c.device_id \in DOMAIN devs /\ TruthyInt(c.previous_brightness)
    THEN [cmd |-> c,
          devs |-> [devs EXCEPT ![c.device_id] = activate(devs[c.device_id])],
          result |-> [success |-> TRUE, action |-> "undo_light_off"]]
    ELSE Same(c, devs, [success |-> FALSE, error |-> <<"Cannot undo">>])

LightOffCommand_undo(c, devs) ==
    IF c.device_id \in DOMAIN devs /\ TruthyInt(c.previous_brightness)
    THEN LET on == activate(devs[c.device_id])
             after == IF HasSetBrightness(on)
                      THEN set_brightness(on, c.previous_brightness[1]).dev ELSE on
         IN  [cmd |-> c,
              devs |-> [devs EXCEPT ![c.device_id] = after],
              result |-> [success |-> TRUE, action |-> "undo_light_off"]]
    ELSE Same(c, devs, [success |-> FALSE, error |-> <<"Cannot undo">>])

\* A fault C4 is to catch: a signal command that reports a missing signal with
\* the light commands' message
TrafficCommand_execute_device_message(c, devs, signal, default, action) ==
    IF c.device_id \in DOMAIN devs /\ HasSetSignal(devs[c.device_id])
    THEN LET device == devs[c.device_id]
             r == set_signal(device, signal)
         IN  [cmd |-> [c EXCEPT !.previous_signal = Some(GetSignal(device, default))],
              devs |-> [devs EXCEPT ![c.device_id] = r.dev],
              result |-> [success |-> r.ok, device_id |-> c.device_id,
                          action |-> action, signal |-> signal]]
    ELSE Same(c, devs, [success |-> FALSE, error |-> DeviceNotFound(c.device_id)])

\* TrafficGreenCommand.execute and TrafficRedCommand.execute differ in the
\* signal they set, the getattr default and the action name
TrafficCommand_execute(c, devs, signal, default, action) ==
    IF c.device_id \in DOMAIN devs /\ HasSetSignal(devs[c.device_id])
    THEN LET device == devs[c.device_id]
             r == set_signal(device, signal)
         IN  [cmd |-> [c EXCEPT !.previous_signal = Some(GetSignal(device, default))],
              devs |-> [devs EXCEPT ![c.device_id] = r.dev],
              result |-> [success |-> r.ok, device_id |-> c.device_id,
                          action |-> action, signal |-> signal]]
    ELSE Same(c, devs, [success |-> FALSE, error |-> SignalNotFound(c.device_id)])

TrafficGreenCommand_execute(c, devs) ==
    TrafficCommand_execute(c, devs, "green", "red", "traffic_green")

TrafficRedCommand_execute(c, devs) ==
    TrafficCommand_execute(c, devs, "red", "green", "traffic_red")

\* TrafficGreenCommand.undo and TrafficRedCommand.undo differ in the action name
TrafficCommand_undo(c, devs, action) ==
    IF /\ TruthyString(c.previous_signal)
       /\ c.device_id \in DOMAIN devs
       /\ HasSetSignal(devs[c.device_id])
    THEN [cmd |-> c,
          devs |-> [devs EXCEPT ![c.device_id] =
                       set_signal(devs[c.device_id], c.previous_signal[1]).dev],
          result |-> [success |-> TRUE, action |-> action]]
    ELSE Same(c, devs, [success |-> FALSE, error |-> <<"Cannot undo">>])

TrafficGreenCommand_undo(c, devs) == TrafficCommand_undo(c, devs, "undo_traffic_green")

TrafficRedCommand_undo(c, devs) == TrafficCommand_undo(c, devs, "undo_traffic_red")

ProcessPaymentCommand_execute(c, bal, txs) ==
    LET p == process_payment(c.resident_id, c.amount, c.payment_type, bal, txs)
    IN  [cmd |-> IF p.result.success
                 THEN [c EXCEPT !.transaction_id = Some(p.result.transaction.transaction_id)]
                 ELSE c,
         bal |-> p.bal, txs |-> p.txs, result |-> p.result]

ProcessPaymentCommand_undo(c, bal, txs) ==
    IF TruthyId(c.transaction_id)
    THEN LET p == refund_transaction(c.transaction_id[1], bal, txs)
         IN  [cmd |-> c, bal |-> p.bal, txs |-> p.txs, result |-> p.result]
    ELSE [cmd |-> c, bal |-> bal, txs |-> txs,
          result |-> [success |-> FALSE, error |-> <<"No transaction to refund">>]]

IsDeviceCommand(c) == c.kind \in {"LightOn", "LightOff", "TrafficGreen", "TrafficRed"}

\* command.execute(), dispatched on the command's class
Command_execute(c, devs, bal, txs) ==
    IF c.kind = "ProcessPayment"
    THEN LET x == ProcessPaymentCommand_execute(c, bal, txs)
         IN  [cmd |-> x.cmd, devs |-> devs, bal |-> x.bal, txs |-> x.txs,
              result |-> x.result]
    ELSE LET x == CASE c.kind = "LightOn"      -> LightOnCommand_execute(c, devs)
                    [] c.kind = "LightOff"     -> LightOffCommand_execute(c, devs)
                    [] c.kind = "TrafficGreen" -> TrafficGreenCommand_execute(c, devs)
                    [] c.kind = "TrafficRed"   -> TrafficRedCommand_execute(c, devs)
         IN  [cmd |-> x.cmd, devs |-> x.devs, bal |-> bal, txs |-> txs,
              result |-> x.result]

\* command.undo(), dispatched on the command's class
Command_undo(c, devs, bal, txs) ==
    IF c.kind = "ProcessPayment"
    THEN LET x == ProcessPaymentCommand_undo(c, bal, txs)
         IN  [cmd |-> x.cmd, devs |-> devs, bal |-> x.bal, txs |-> x.txs,
              result |-> x.result]
    ELSE LET x == CASE c.kind = "LightOn"      -> LightOnCommand_undo(c, devs)
                    [] c.kind = "LightOff"     -> LightOffCommand_undo(c, devs)
                    [] c.kind = "TrafficGreen" -> TrafficGreenCommand_undo(c, devs)
                    [] c.kind = "TrafficRed"   -> TrafficRedCommand_undo(c, devs)
         IN  [cmd |-> x.cmd, devs |-> x.devs, bal |-> bal, txs |-> txs,
              result |-> x.result]

----------------------------------------------------------------------------
(* Construction: app/main.py *)

\* the devices main.py constructs, by id (SL002 is a second StreetLight,
\* constructed like SL001, and is left out)
DeviceOf ==
    [SL001 |-> StreetLight, TS001 |-> TrafficSignal, SC001 |-> SecurityCamera]

DeviceIds == DOMAIN DeviceOf

\* an id that is never registered
AbsentId == "SL999"

\* a call and what it returned: its arguments (a command object is named by
\* its index in cmds), the returned value as an Optional (None when the call
\* returns nothing or returns None), and the command objects whose undo() the
\* call invoked
Call(op, args, result, undone) ==
    [op |-> op, args |-> args, result |-> result, undone |-> undone]

NoArgs == [cmd |-> 0]
OfCommand(i) == [cmd |-> i]
OfDevice(id) == [device_id |-> id]

\* what a query returns: the list, under the name the call record gives it
Entries(list) == [entries |-> list]

InitDevices == devices = DeviceOf

InitInvoker ==
    /\ history = <<>>
    /\ undo_stack = <<>>

InitBanking ==
    /\ balances = [r \in Residents |-> FloatOf(1000)]
    /\ transactions = <<>>

InitController ==
    /\ stats = [active_devices |-> 0, total_commands |-> 0]
    /\ command_history = <<>>

\* the request threads of the development server (app.run, app/main.py),
\* each between two requests
Threads == {"t1", "t2"}

NoLocals ==
    [status |-> "", brightness |-> 0, level |-> 0, notification |-> None,
     overlapped |-> FALSE, obj |-> 0, via_get_instance |-> FALSE]

InitThreads ==
    /\ pc = [t \in Threads |-> "idle"]
    /\ loc = [t \in Threads |-> NoLocals]

\* main.py has constructed the controller and the AuthService once
InitServices ==
    /\ singleton = [instance |-> 1, initialized |-> "true", lock |-> "",
                    created |-> 1, inits |-> 1]
    /\ auth = [failed_attempts |-> None, lockout_time |-> None, sessions |-> 0,
               streak |-> 0]

InitCalls ==
    /\ last = Call("init", NoArgs, None, <<>>)
    /\ rt = None

----------------------------------------------------------------------------
(* CityController: app/controllers/city_controller.py *)

\* CityController._update_active_count
update_active_count(st, devs) ==
    [st EXCEPT !.active_devices =
        Cardinality({id \in DOMAIN devs : devs[id].status = ACTIVE})]

\* what a controller call leaves alone, and the call it records
ControllerCall(op, id, result) ==
    /\ last' = Call(op, OfDevice(id), Some(result), <<>>)
    /\ rt' = None
    /\ UNCHANGED <<cmdVars, bankVars, notifVars, command_history, thrVars, svcVars>>

\* A fault C25 is to catch: a registration that rebinds an id already present
register_device_rebinding(id) ==
    /\ id \in DeviceIds
    /\ devices' = [x \in DOMAIN devices \cup {id} |->
                      IF x = id THEN DeviceOf[id] ELSE devices[x]]
    /\ stats' = update_active_count(stats, devices')
    /\ ControllerCall("register_device", id, [ok |-> TRUE])

register_device(id) ==
    /\ id \in DeviceIds
    /\ IF id \notin DOMAIN devices
       THEN /\ devices' = [x \in DOMAIN devices \cup {id} |->
                              IF x = id THEN DeviceOf[id] ELSE devices[x]]
            /\ stats' = update_active_count(stats, devices')
            /\ ControllerCall("register_device", id, [ok |-> TRUE])
       ELSE /\ UNCHANGED <<devices, stats>>
            /\ ControllerCall("register_device", id, [ok |-> FALSE])

unregister_device(id) ==
    IF id \in DOMAIN devices
    THEN /\ devices' = [x \in DOMAIN devices \ {id} |-> devices[x]]
         /\ stats' = update_active_count(stats, devices')
         /\ ControllerCall("unregister_device", id, [ok |-> TRUE])
    ELSE /\ UNCHANGED <<devices, stats>>
         /\ ControllerCall("unregister_device", id, [ok |-> FALSE])

\* CityController.get_device: self._devices.get(device_id)
get_device(devs, id) == IF id \in DOMAIN devs THEN Some(devs[id]) ELSE None

\* a caller's get_device(id): the registry is read and left alone
CityController_get_device(id) ==
    /\ last' = Call("get_device", OfDevice(id), get_device(devices, id), <<>>)
    /\ rt' = None
    /\ UNCHANGED <<devVars, cmdVars, bankVars, notifVars, ctlVars, svcVars, thrVars>>

activate_device(id) ==
    IF id \in DOMAIN devices
    THEN /\ devices' = [devices EXCEPT ![id] = activate(devices[id])]
         /\ stats' = update_active_count(stats, devices')
         /\ ControllerCall("activate_device", id,
               [success |-> TRUE, device_id |-> id, action |-> "activate"])
    ELSE /\ UNCHANGED <<devices, stats>>
         /\ ControllerCall("activate_device", id,
               [success |-> FALSE, error |-> DeviceNotFound(id)])

deactivate_device(id) ==
    IF id \in DOMAIN devices
    THEN /\ devices' = [devices EXCEPT ![id] = deactivate(devices[id])]
         /\ stats' = update_active_count(stats, devices')
         /\ ControllerCall("deactivate_device", id,
               [success |-> TRUE, device_id |-> id, action |-> "deactivate"])
    ELSE /\ UNCHANGED <<devices, stats>>
         /\ ControllerCall("deactivate_device", id,
               [success |-> FALSE, error |-> DeviceNotFound(id)])

set_traffic_signal(id, signal) ==
    IF id \in DOMAIN devices /\ HasSetSignal(devices[id])
    THEN LET r == set_signal(devices[id], signal)
         IN  /\ devices' = [devices EXCEPT ![id] = r.dev]
             /\ UNCHANGED stats
             /\ ControllerCall("set_traffic_signal", id,
                   [success |-> r.ok, device_id |-> id, signal |-> signal])
    ELSE /\ UNCHANGED <<devices, stats>>
         /\ ControllerCall("set_traffic_signal", id,
               [success |-> FALSE, error |-> SignalNotFound(id)])

set_light_brightness(id, brightness) ==
    IF id \in DOMAIN devices /\ HasSetBrightness(devices[id])
    THEN LET r == set_brightness(devices[id], brightness)
         IN  /\ devices' = [devices EXCEPT ![id] = r.dev]
             /\ UNCHANGED stats
             /\ ControllerCall("set_light_brightness", id,
                   [success |-> r.ok, device_id |-> id, brightness |-> brightness])
    ELSE /\ UNCHANGED <<devices, stats>>
         /\ ControllerCall("set_light_brightness", id,
               [success |-> FALSE, error |-> <<"Street light ", id, " not found">>])

\* command.__class__.__name__
ClassName(c) ==
    CASE c.kind = "LightOn"        -> "LightOnCommand"
      [] c.kind = "LightOff"       -> "LightOffCommand"
      [] c.kind = "TrafficGreen"   -> "TrafficGreenCommand"
      [] c.kind = "TrafficRed"     -> "TrafficRedCommand"
      [] c.kind = "ProcessPayment" -> "ProcessPaymentCommand"

\* A fault C35 is to catch: a controller that counts the commands that
\* succeeded only
CityController_execute_command_counting_successes_of(c, r) ==
    [cmd |-> r.cmd, devs |-> r.devs, bal |-> r.bal, txs |-> r.txs,
     result |-> r.result,
     command_history |-> Append(command_history,
         [command |-> ClassName(c), success |-> r.result.success]),
     stats |-> update_active_count(
         [stats EXCEPT !.total_commands =
                          IF r.result.success THEN @ + 1 ELSE @], r.devs)]

CityController_execute_command_counting_successes(c) ==
    CityController_execute_command_counting_successes_of(c,
        Command_execute(c, devices, balances, transactions))

\* CityController.execute_command(command) once command.execute() has left
\* r: the history with the entry appended, the statistics with the command
\* counted and the active devices counted again, and the result returned
CityController_execute_command_of(c, r) ==
    [cmd |-> r.cmd, devs |-> r.devs, bal |-> r.bal, txs |-> r.txs,
     result |-> r.result,
     command_history |-> Append(command_history,
         [command |-> ClassName(c), success |-> r.result.success]),
     stats |-> update_active_count(
         [stats EXCEPT !.total_commands = @ + 1], r.devs)]

\* CityController.execute_command(command)
CityController_execute_command(c) ==
    CityController_execute_command_of(c,
        Command_execute(c, devices, balances, transactions))

\* CityController.execute_command on the command object cmds[i], r being
\* what the call leaves
execute_command_with(i, r) ==
    /\ cmds' = [cmds EXCEPT ![i] = r.cmd]
    /\ devices' = r.devs
    /\ balances' = r.bal
    /\ transactions' = r.txs
    /\ command_history' = r.command_history
    /\ stats' = r.stats
    /\ last' = Call("execute_command", OfCommand(i), Some(r.result), <<>>)
    /\ rt' = Some([cmd |-> i, pre |-> devices, undone |-> FALSE])
    /\ UNCHANGED <<history, undo_stack, notifVars, thrVars, svcVars>>

\* CityController.execute_command on the command object cmds[i]
execute_command(i) ==
    execute_command_with(i, CityController_execute_command(cmds[i]))

\* CityController.undo_last_command
undo_last_command ==
    /\ last' = Call("undo_last_command", NoArgs,
                    IF command_history # <<>>
                    THEN Some([message |-> <<"Attempted to undo ",
                                             LastOf(command_history).command>>])
                    ELSE None, <<>>)
    /\ rt' = None
    /\ UNCHANGED <<devVars, cmdVars, bankVars, notifVars, ctlVars, thrVars, svcVars>>

----------------------------------------------------------------------------
(* Routines: app/routines/daily_routines.py.  A routine reaches the devices *)
(* through the controller's get_all_devices and get_device and calls the    *)
(* device methods itself; its step log is left out.                        *)

\* what a routine run leaves alone, and the call it records
RoutineCall(name) ==
    /\ last' = Call("Routine.execute", [routine |-> name],
                    Some([success |-> TRUE, routine |-> name]), <<>>)
    /\ rt' = None
    /\ UNCHANGED <<cmdVars, bankVars, notifVars, ctlVars, svcVars, thrVars>>

\* SunriseRoutine.prepare: the ids of the street lights that are on
SunriseRoutine_prepare(devs) ==
    {id \in DOMAIN devs :
        devs[id].device_type = "StreetLight" /\ devs[id].status = ACTIVE}

\* the body of the loop of SunriseRoutine.execute_main_operations
SunriseRoutine_dim(d) ==
    deactivate(IF HasSetBrightness(d)
               THEN set_brightness(set_brightness(set_brightness(d, 50).dev,
                                                  25).dev, 0).dev
               ELSE d)

SunriseRoutine_execute ==
    /\ LET active_lights == SunriseRoutine_prepare(devices)
       IN  devices' = [id \in DOMAIN devices |->
                          IF id \in active_lights
                          THEN SunriseRoutine_dim(devices[id]) ELSE devices[id]]
    /\ RoutineCall("Sunrise Routine")

\* SunsetRoutine.prepare: the ids of the street lights
SunsetRoutine_prepare(devs) ==
    {id \in DOMAIN devs : devs[id].device_type = "StreetLight"}

\* the body of the loop of SunsetRoutine.execute_main_operations
SunsetRoutine_light(d) ==
    LET on == activate(d)
    IN  IF HasSetBrightness(on)
        THEN set_brightness(set_brightness(set_brightness(on, 50).dev,
                                           75).dev, 100).dev
        ELSE on

SunsetRoutine_execute ==
    /\ LET lights_to_activate == SunsetRoutine_prepare(devices)
       IN  devices' = [id \in DOMAIN devices |->
                          IF id \in lights_to_activate
                          THEN SunsetRoutine_light(devices[id]) ELSE devices[id]]
    /\ RoutineCall("Sunset Routine")

\* EnergyOptimizationRoutine.execute at the given hour of the day
EnergyOptimizationRoutine_execute(current_hour) ==
    /\ devices' = [id \in DOMAIN devices |->
                      IF /\ devices[id].device_type = "StreetLight"
                         /\ 1 <= current_hour /\ current_hour <= 5
                         /\ HasSetBrightness(devices[id])
                      THEN set_brightness(devices[id], 60).dev ELSE devices[id]]
    /\ RoutineCall("Energy Optimization Routine")

\* the steps of DailyRoutineTemplate.execute, in the order of its body
Steps == <<"prepare", "execute_main_operations", "verify", "cleanup",
           "notify_completion">>

RoutineNames == {"Sunrise Routine", "Sunset Routine", "Energy Optimization Routine"}

\* execute_main_operations of the three routines: the devices afterwards
execute_main_operations(routine, devs, current_hour) ==
    CASE routine = "Sunrise Routine" ->
           [id \in DOMAIN devs |->
               IF id \in SunriseRoutine_prepare(devs)
               THEN SunriseRoutine_dim(devs[id]) ELSE devs[id]]
      [] routine = "Sunset Routine" ->
           [id \in DOMAIN devs |->
               IF id \in SunsetRoutine_prepare(devs)
               THEN SunsetRoutine_light(devs[id]) ELSE devs[id]]
      [] routine = "Energy Optimization Routine" ->
           [id \in DOMAIN devs |->
               IF /\ devs[id].device_type = "StreetLight"
                  /\ 1 <= current_hour /\ current_hour <= 5
                  /\ HasSetBrightness(devs[id])
               THEN set_brightness(devs[id], 60).dev ELSE devs[id]]

\* verify of the three routines; before holds the devices prepare() saw
verify(routine, before, devs, current_hour) ==
    CASE routine = "Sunrise Routine" ->
           \A id \in DOMAIN devs :
               devs[id].device_type = "StreetLight" => devs[id].status = INACTIVE
      [] routine = "Sunset Routine" ->
           \A id \in DOMAIN devs :
               devs[id].device_type = "StreetLight" => devs[id].status = ACTIVE
      [] routine = "Energy Optimization Routine" ->
           \E id \in DOMAIN before :
               /\ before[id].device_type = "StreetLight"
               /\ 1 <= current_hour /\ current_hour <= 5
               /\ HasSetBrightness(before[id])

\* what a step does to the devices
StepDevices(routine, step, devs, current_hour) ==
    IF step = "execute_main_operations"
    THEN execute_main_operations(routine, devs, current_hour)
    ELSE devs

\* the line execute() logs after a step has returned
StepLogged(routine, step, before, devs, current_hour) ==
    CASE step = "prepare" -> <<"Preparation complete">>
      [] step = "execute_main_operations" -> <<"Main operations complete">>
      [] step = "verify" ->
           <<"Verification: ", verify(routine, before, devs, current_hour)>>
      [] step = "cleanup" -> <<"Cleanup complete">>
      [] step = "notify_completion" -> <<"Routine completed successfully">>

\* str(e) of the exception a faulty step raises
FaultIn(step) == <<"fault in ", step>>

\* A fault C36 is to catch: a template that goes on with the next step when
\* a step has raised
RECURSIVE DailyRoutineTemplate_steps_resuming(_, _, _, _, _, _)
DailyRoutineTemplate_steps_resuming(routine, faulty, current_hour, k, before, run) ==
    IF k > Len(Steps)
    THEN [run EXCEPT !.result = Some([success |-> TRUE, routine |-> routine,
                                      log |-> run.log, called |-> run.called])]
    ELSE LET step == Steps[k]
             called == Append(run.called, step)
         IN  IF k = faulty
             THEN DailyRoutineTemplate_steps_resuming(routine, faulty, current_hour,
                      k + 1, before,
                      [run EXCEPT !.called = called,
                                  !.log = Append(@, <<"Error: ", FaultIn(step)>>)])
             ELSE LET devs == StepDevices(routine, step, run.devs, current_hour)
                  IN  DailyRoutineTemplate_steps_resuming(routine, faulty, current_hour,
                          k + 1, before,
                          [run EXCEPT !.called = called, !.devs = devs,
                                      !.log = Append(@, StepLogged(routine, step, before,
                                                                   devs, current_hour))])

\* The try block of DailyRoutineTemplate.execute from its k-th step on, for a
\* routine whose step number faulty raises an Exception on entry (0: no step
\* raises).  run holds the devices, the log, the steps called so far and the
\* value returned; the except clause logs the error and returns the failure.
RECURSIVE DailyRoutineTemplate_steps(_, _, _, _, _, _)
DailyRoutineTemplate_steps(routine, faulty, current_hour, k, before, run) ==
    IF k > Len(Steps)
    THEN [run EXCEPT !.result = Some([success |-> TRUE, routine |-> routine,
                                      log |-> run.log, called |-> run.called])]
    ELSE LET step == Steps[k]
             called == Append(run.called, step)
         IN  IF k = faulty
             THEN LET log == Append(run.log, <<"Error: ", FaultIn(step)>>)
                  IN  [run EXCEPT !.called = called, !.log = log,
                                  !.result = Some([success |-> FALSE,
                                                   routine |-> routine,
                                                   error |-> FaultIn(step),
                                                   log |-> log, called |-> called])]
             ELSE LET devs == StepDevices(routine, step, run.devs, current_hour)
                  IN  DailyRoutineTemplate_steps(routine, faulty, current_hour,
                          k + 1, before,
                          [run EXCEPT !.called = called, !.devs = devs,
                                      !.log = Append(@, StepLogged(routine, step, before,
                                                                   devs, current_hour))])

\* DailyRoutineTemplate.execute of the routine named, run at current_hour,
\* with a fault in step number faulty.  The value recorded is the dict
\* returned, with the steps execute() called beside it; None would stand
\* for an exception that leaves execute().
DailyRoutineTemplate_execute(routine, faulty, current_hour) ==
    LET run == DailyRoutineTemplate_steps(routine, faulty, current_hour, 1, devices,
                   [devs |-> devices, log |-> << <<"Starting routine">> >>,
                    called |-> <<>>, result |-> None])
    IN  /\ devices' = run.devs
        /\ last' = Call("DailyRoutineTemplate.execute",
                        [routine |-> routine, faulty |-> faulty,
                         current_hour |-> current_hour],
                        run.result, <<>>)
        /\ rt' = None
        /\ UNCHANGED <<cmdVars, bankVars, notifVars, ctlVars, svcVars, thrVars>>

----------------------------------------------------------------------------
(* The invoker: app/commands/infrastructure_commands.py *)

\* A fault C3 is to catch: a history that records successful executes only
AppendHistory_successes(h, i, result) ==
    IF result.success THEN Append(h, [command |-> i, result |-> result]) ELSE h

\* self._history.append({'command': command, 'result': result, ...})
AppendHistory(h, i, result) == Append(h, [command |-> i, result |-> result])

\* self._undo_stack.append(command)
Push(stack, i) == Append(stack, i)

\* A fault C21 is to catch: a pop that leaves the command on the stack
Pop_peek(stack) == [command |-> LastOf(stack), stack |-> stack]

\* A fault C2 is to catch: a pop that takes the oldest command (a queue)
Pop_oldest(stack) == [command |-> Head(stack), stack |-> Tail(stack)]

\* self._undo_stack.pop(): the popped command and the stack left
Pop(stack) == [command |-> LastOf(stack), stack |-> Front(stack)]

\* CommandInvoker.execute(command), command being the object cmds[i]
CommandInvoker_execute(i) ==
    /\ i \in 1..Len(cmds)
    /\ LET x == Command_execute(cmds[i], devices, balances, transactions)
       IN  /\ cmds' = [cmds EXCEPT ![i] = x.cmd]
           /\ devices' = x.devs
           /\ balances' = x.bal
           /\ transactions' = x.txs
           /\ history' = AppendHistory(history, i, x.result)
           /\ undo_stack' = Push(undo_stack, i)
           /\ last' = Call("Invoker.execute", OfCommand(i), Some(x.result), <<>>)
           /\ rt' = Some([cmd |-> i, pre |-> devices, undone |-> FALSE])
    /\ UNCHANGED <<notifVars, ctlVars, svcVars, thrVars>>

\* A fault C20 is to catch: an undo that reports an empty stack as a failure
CommandInvoker_undo_failing ==
    /\ IF undo_stack # <<>>
       THEN LET p == Pop(undo_stack)
                x == Command_undo(cmds[p.command], devices, balances, transactions)
            IN  /\ undo_stack' = p.stack
                /\ cmds' = [cmds EXCEPT ![p.command] = x.cmd]
                /\ devices' = x.devs
                /\ balances' = x.bal
                /\ transactions' = x.txs
                /\ last' = Call("Invoker.undo", NoArgs, Some(x.result),
                                <<p.command>>)
                /\ rt' = IF ~IsNone(rt) /\ ~rt[1].undone
                         THEN Some([rt[1] EXCEPT !.undone = TRUE])
                         ELSE None
       ELSE /\ UNCHANGED <<undo_stack, cmds, devices, balances, transactions>>
            /\ last' = Call("Invoker.undo", NoArgs,
                            Some([success |-> FALSE, error |-> <<"Nothing to undo">>]),
                            <<>>)
            /\ rt' = None
    /\ UNCHANGED <<history, notifVars, ctlVars, svcVars, thrVars>>

\* CommandInvoker.undo()
CommandInvoker_undo ==
    /\ IF undo_stack # <<>>
       THEN LET p == Pop(undo_stack)
                x == Command_undo(cmds[p.command], devices, balances, transactions)
            IN  /\ undo_stack' = p.stack
                /\ cmds' = [cmds EXCEPT ![p.command] = x.cmd]
                /\ devices' = x.devs
                /\ balances' = x.bal
                /\ transactions' = x.txs
                /\ last' = Call("Invoker.undo", NoArgs, Some(x.result),
                                <<p.command>>)
                /\ rt' = IF ~IsNone(rt) /\ ~rt[1].undone
                         THEN Some([rt[1] EXCEPT !.undone = TRUE])
                         ELSE None
       ELSE /\ UNCHANGED <<undo_stack, cmds, devices, balances, transactions>>
            /\ last' = Call("Invoker.undo", NoArgs, None, <<>>)
            /\ rt' = None
    /\ UNCHANGED <<history, notifVars, ctlVars, svcVars, thrVars>>

\* command.undo() called on the command object cmds[i] itself
Command_undo_direct(i) ==
    /\ i \in 1..Len(cmds)
    /\ LET x == Command_undo(cmds[i], devices, balances, transactions)
       IN  /\ cmds' = [cmds EXCEPT ![i] = x.cmd]
           /\ devices' = x.devs
           /\ balances' = x.bal
           /\ transactions' = x.txs
           /\ last' = Call("Command.undo", OfCommand(i), Some(x.result), <<i>>)
    /\ rt' = None
    /\ UNCHANGED <<history, undo_stack, notifVars, ctlVars, svcVars, thrVars>>

\* BankingController.process_payment called on the controller.  rt keeps
\* the balances as the payment found them, with the id of the transaction
\* it completed.
BankingController_process_payment(resident_id, amount, payment_type) ==
    LET p == process_payment(resident_id, amount, payment_type,
                             balances, transactions)
    IN  /\ balances' = p.bal
        /\ transactions' = p.txs
        /\ last' = Call("process_payment",
                        [resident_id |-> resident_id, amount |-> amount,
                         payment_type |-> payment_type],
                        Some(p.result), <<>>)
        /\ rt' = IF p.result.success
                 THEN Some([cmd |-> 0, pre |-> devices, undone |-> FALSE,
                            balances |-> balances,
                            transaction_id |-> p.result.transaction.transaction_id])
                 ELSE None
        /\ UNCHANGED <<devVars, cmdVars, notifVars, ctlVars, svcVars, thrVars>>

\* BankingController.refund_transaction called on the controller
BankingController_refund_transaction(transaction_id) ==
    LET p == refund_transaction(transaction_id, balances, transactions)
    IN  /\ balances' = p.bal
        /\ transactions' = p.txs
        /\ last' = Call("refund_transaction", [transaction_id |-> transaction_id],
                        Some(p.result), <<>>)
        /\ rt' = IF ~IsNone(rt) /\ "transaction_id" \in DOMAIN rt[1]
                 THEN Some([rt[1] EXCEPT !.undone = TRUE])
                 ELSE None
        /\ UNCHANGED <<devVars, cmdVars, notifVars, ctlVars, svcVars, thrVars>>

\* Command.get_description() of the five classes; str() of a number is
\* its decimal numeral
get_description(c) ==
    CASE c.kind = "LightOn" ->
           <<"Turn on light ", c.device_id, " at ", ToString(c.brightness), "% brightness">>
      [] c.kind = "LightOff" -> <<"Turn off light ", c.device_id>>
      [] c.kind = "TrafficGreen" -> <<"Set traffic signal ", c.device_id, " to green">>
      [] c.kind = "TrafficRed" -> <<"Set traffic signal ", c.device_id, " to red">>
      [] c.kind = "ProcessPayment" ->
           <<"Process ", c.payment_type, " payment of ", ToString(c.amount), " USD">>

\* what get_history returns for the entries of self._history[-limit:] (the
\* timestamp of an entry, which the model's history does not keep, left out)
Described(entries) ==
    [k \in 1..Len(entries) |->
        [command |-> get_description(cmds[entries[k].command]),
         success |-> entries[k].result.success]]

\* CommandInvoker.get_history(limit)
get_history(limit) ==
    /\ last' = Call("get_history", [limit |-> limit],
                    Some(Entries(Described(SliceLast(history, limit)))), <<>>)
    /\ rt' = None
    /\ UNCHANGED <<devVars, cmdVars, bankVars, notifVars, ctlVars, svcVars, thrVars>>

----------------------------------------------------------------------------
(* NotificationService and its observers: app/services/notification_service.py *)

NotificationTypes == {"info", "warning", "security", "transaction", "emergency"}

\* the observer objects of the three classes of the module, named by what
\* their get_type() returns
ObserverIds == {"security", "transaction", "emergency"}

\* observer objects of further subclasses of Observer, named by what their
\* update() does besides taking the notification: nothing more ("plain"),
\* raise an Exception ("raising"), detach itself from the service
\* ("leaving"), call notify('echo') on the service unless the notification
\* is itself an echo ("echoing")
StubObservers == {"plain", "raising", "leaving", "echoing"}

AllObservers == ObserverIds \cup StubObservers

\* A fault C16 is to catch: a security observer that lets emergencies pass
SecurityObserver_update_security_only(alerts, notification, now) ==
    IF notification.type = "security"
    THEN Append(alerts, [processed_at |-> now, status |-> "received"] @@ notification)
    ELSE alerts

\* SecurityObserver.update: the observer's _alerts afterwards
SecurityObserver_update(alerts, notification, now) ==
    IF notification.type \in {"security", "emergency"}
    THEN Append(alerts, [processed_at |-> now, status |-> "received"] @@ notification)
    ELSE alerts

\* TransactionObserver.update: the observer's _notifications afterwards
TransactionObserver_update(received, notification, now) ==
    IF notification.type = "transaction"
    THEN Append(received, [processed_at |-> now] @@ notification)
    ELSE received

\* EmergencyObserver.update: the observer's _emergencies afterwards
EmergencyObserver_update(emergencies, notification, now) ==
    IF notification.type = "emergency"
    THEN Append(emergencies, [escalated |-> TRUE, escalated_at |-> now] @@ notification)
    ELSE emergencies

\* list.remove(x): the list without its first x
RECURSIVE RemoveFirst(_, _)
RemoveFirst(s, x) ==
    IF s = <<>> THEN s
    ELSE IF Head(s) = x THEN Tail(s)
    ELSE <<Head(s)>> \o RemoveFirst(Tail(s), x)

InList(s, x) == \E k \in 1..Len(s) : s[k] = x

\* the next id notify() assigns
NextId(log) == Len(log) + 1

\* the NotificationService object and what its observers hold, as one value
Service ==
    [observers |-> observers, notifications |-> notifications,
     security_alerts |-> security_alerts, records |-> records,
     issued |-> issued, delivered |-> delivered]

\* A fault C15 is to catch: an attach that appends whatever is attached
Service_attach_always(svc, o) == [svc EXCEPT !.observers = Append(@, o)]

\* A fault C14 is to catch: an attach that puts the newest observer first
Service_attach_first(svc, o) ==
    [svc EXCEPT !.observers = IF ~InList(@, o) THEN <<o>> \o @ ELSE @]

\* if observer not in self._observers: self._observers.append(observer)
Service_attach(svc, o) ==
    [svc EXCEPT !.observers = IF ~InList(@, o) THEN Append(@, o) ELSE @]

\* if observer in self._observers: self._observers.remove(observer)
Service_detach(svc, o) ==
    [svc EXCEPT !.observers = IF InList(@, o) THEN RemoveFirst(@, o) ELSE @]

\* A fault C33 is to catch: an EmergencyObserver that marks the dict it is
\* handed instead of a copy of it
Passed_escalating(o, notification) ==
    IF o = "emergency" /\ notification.type = "emergency"
    THEN [escalated |-> TRUE] @@ notification
    ELSE notification

\* The dict handed to observer.update(), as the call leaves it.  The three
\* observer classes read it with .get() and build their own record with
\* {**notification, ...}; none assigns to it.
Passed(o, notification) == notification

\* notify() puts one dict object into _notifications and _security_alerts,
\* hands it to every observer and returns it: what update() does to the
\* object shows in each of these places.
Shared(svc, old, new) ==
    IF new = old THEN svc
    ELSE [svc EXCEPT
             !.notifications = [k \in DOMAIN @ |-> IF @[k] = old THEN new ELSE @[k]],
             !.security_alerts = [k \in DOMAIN @ |-> IF @[k] = old THEN new ELSE @[k]]]

RECURSIVE Service_notify(_, _, _, _)
RECURSIVE FanOut(_, _, _, _)
RECURSIVE Observer_update(_, _, _, _)

\* observer.update(notification), dispatched on the observer's class: the
\* service afterwards, and whether update() raised
Observer_update(o, svc, notification, now) ==
    LET called == [svc EXCEPT !.delivered =
                      Append(@, [observer |-> o, id |-> notification.id])]
        taken  == [called EXCEPT !.records[o] = Append(@, notification)]
    IN  CASE o = "security" ->
               [svc |-> Shared([called EXCEPT !.records[o] =
                                   SecurityObserver_update(@, notification, now)],
                               notification, Passed(o, notification)),
                raised |-> FALSE]
          [] o = "transaction" ->
               [svc |-> Shared([called EXCEPT !.records[o] =
                                   TransactionObserver_update(@, notification, now)],
                               notification, Passed(o, notification)),
                raised |-> FALSE]
          [] o = "emergency" ->
               [svc |-> Shared([called EXCEPT !.records[o] =
                                   EmergencyObserver_update(@, notification, now)],
                               notification, Passed(o, notification)),
                raised |-> FALSE]
          [] o = "plain"   -> [svc |-> taken, raised |-> FALSE]
          [] o = "raising" -> [svc |-> taken, raised |-> TRUE]
          [] o = "leaving" -> [svc |-> Service_detach(taken, o), raised |-> FALSE]
          [] o = "echoing" ->
               [svc |-> IF notification.message = "echo" THEN taken
                        ELSE Service_notify(taken, "echo", "info", now).svc,
                raised |-> FALSE]

\* A fault C11 is to catch: a loop that an observer's exception ends
FanOut_unguarded(svc, notification, now, i) ==
    IF i > Len(svc.observers) THEN svc
    ELSE LET r == Observer_update(svc.observers[i], svc, notification, now)
         IN  IF r.raised THEN r.svc
             ELSE FanOut(r.svc, notification, now, i + 1)

\* for observer in self._observers: try: observer.update(notification)
\* except Exception: print(...).  The list iterator holds the position i
\* in the list object itself, which update() may change meanwhile; an
\* exception is caught and the loop goes on.
FanOut(svc, notification, now, i) ==
    IF i > Len(svc.observers) THEN svc
    ELSE FanOut(Observer_update(svc.observers[i], svc, notification, now).svc,
                Passed(svc.observers[i], notification), now, i + 1)

\* A fault C18 is to catch: a notify that indexes security notifications only
Service_notify_security_only(svc, message, notification_type, now) ==
    LET notification == [id |-> NextId(svc.notifications), message |-> message,
                         type |-> notification_type, timestamp |-> now]
        stored == [svc EXCEPT
                      !.notifications = Append(@, notification),
                      !.security_alerts =
                          IF notification_type = "security"
                          THEN Append(@, notification) ELSE @,
                      !.issued = Append(@, notification.id)]
    IN  [svc |-> FanOut(stored, notification, now, 1),
         notification |-> notification]

\* NotificationService.notify on the service value: the service afterwards
\* and the notification returned
Service_notify(svc, message, notification_type, now) ==
    LET notification == [id |-> NextId(svc.notifications), message |-> message,
                         type |-> notification_type, timestamp |-> now]
        stored == [svc EXCEPT
                      !.notifications = Append(@, notification),
                      !.security_alerts =
                          IF notification_type \in {"security", "emergency"}
                          THEN Append(@, notification) ELSE @,
                      !.issued = Append(@, notification.id)]
        sent == FanOut(stored, notification, now, 1)
    IN  [svc |-> sent,
         notification |-> sent.notifications[Len(stored.notifications)]]

InitNotify ==
    /\ observers = <<>>
    /\ notifications = <<>>
    /\ security_alerts = <<>>
    /\ records = [o \in AllObservers |-> <<>>]
    /\ clock = 0
    /\ issued = <<>>
    /\ delivered = <<>>

\* NotificationService.attach
attach(o) ==
    /\ observers' = Service_attach(Service, o).observers
    /\ last' = Call("attach", [observer |-> o], None, <<>>)
    /\ rt' = None
    /\ UNCHANGED <<notifications, security_alerts, records, clock, issued, delivered>>
    /\ UNCHANGED <<devVars, cmdVars, bankVars, ctlVars, svcVars, thrVars>>

\* NotificationService.detach
detach(o) ==
    /\ observers' = Service_detach(Service, o).observers
    /\ last' = Call("detach", [observer |-> o], None, <<>>)
    /\ rt' = None
    /\ UNCHANGED <<notifications, security_alerts, records, clock, issued, delivered>>
    /\ UNCHANGED <<devVars, cmdVars, bankVars, ctlVars, svcVars, thrVars>>

\* NotificationService.notify(message, notification_type); elapsed is the
\* time that has passed on the clock since the previous call read it
notify(message, notification_type, elapsed) ==
    LET now == clock + elapsed
        r == Service_notify(Service, message, notification_type, now)
    IN  /\ clock' = now
        /\ observers' = r.svc.observers
        /\ notifications' = r.svc.notifications
        /\ security_alerts' = r.svc.security_alerts
        /\ records' = r.svc.records
        /\ issued' = r.svc.issued
        /\ delivered' = r.svc.delivered
        /\ last' = Call("notify", [message |-> message, type |-> notification_type],
                        Some(r.notification), <<>>)
        /\ rt' = None
        /\ UNCHANGED <<devVars, cmdVars, bankVars, ctlVars, svcVars, thrVars>>

\* the actions control_device accepts and the command each one builds
ControlActions == {"on", "off", "green", "red"}

ControlCommand(device_id, action) ==
    CASE action = "on"    -> LightOnCommand(device_id, 100)
      [] action = "off"   -> LightOffCommand(device_id)
      [] action = "green" -> TrafficGreenCommand(device_id)
      [] action = "red"   -> TrafficRedCommand(device_id)

\* control_device once execute_command has left r and notify, at the time
\* now, has left n
control_device_with(device_id, action, r, now, n) ==
    /\ devices' = r.devs
    /\ balances' = r.bal
    /\ transactions' = r.txs
    /\ command_history' = r.command_history
    /\ stats' = r.stats
    /\ clock' = now
    /\ observers' = n.svc.observers
    /\ notifications' = n.svc.notifications
    /\ security_alerts' = n.svc.security_alerts
    /\ records' = n.svc.records
    /\ issued' = n.svc.issued
    /\ delivered' = n.svc.delivered
    /\ last' = Call("control_device",
                    [device_id |-> device_id, action |-> action],
                    Some([code |-> 200, success |-> TRUE,
                          result |-> r.result]), <<>>)
    /\ rt' = None
    /\ UNCHANGED <<cmdVars, thrVars, svcVars>>

\* control_device(device_id) of app/main.py with request.json = {'action':
\* action}: a command object of its own for each request, run through
\* execute_command, then notify(f"Device {device_id}: {action}", "info");
\* any other action is answered with 400 before a command is built.  The
\* notification is stamped elapsed after the clock's last reading.
control_device(device_id, action, elapsed) ==
    IF action \notin ControlActions
    THEN /\ last' = Call("control_device",
                         [device_id |-> device_id, action |-> action],
                         Some([code |-> 400, error |-> <<"Invalid action">>]), <<>>)
         /\ rt' = None
         /\ UNCHANGED <<devVars, cmdVars, bankVars, notifVars, ctlVars, thrVars, svcVars>>
    ELSE control_device_with(device_id, action,
             CityController_execute_command(ControlCommand(device_id, action)),
             clock + elapsed,
             Service_notify(Service, <<"Device ", device_id, ": ", action>>,
                            "info", clock + elapsed))

\* NotificationService.clear_old_notifications(keep_count): the log
\* afterwards and the returned count
clear_old(log, keep_count) ==
    IF Len(log) > keep_count
    THEN [log |-> SliceLast(log, keep_count), removed |-> Len(log) - keep_count]
    ELSE [log |-> log, removed |-> 0]

\* A fault C34 is to catch: a trim that cuts the security index as well
clear_old_notifications_with_index(keep_count) ==
    LET r == clear_old(notifications, keep_count)
    IN  /\ notifications' = r.log
        /\ security_alerts' = clear_old(security_alerts, keep_count).log
        /\ last' = Call("clear_old_notifications", [keep_count |-> keep_count],
                        Some([count |-> r.removed]), <<>>)
        /\ rt' = None
        /\ UNCHANGED <<observers, records, clock, issued, delivered>>
        /\ UNCHANGED <<devVars, cmdVars, bankVars, ctlVars, svcVars, thrVars>>

\* NotificationService.clear_old_notifications(keep_count)
clear_old_notifications(keep_count) ==
    LET r == clear_old(notifications, keep_count)
    IN  /\ notifications' = r.log
        /\ last' = Call("clear_old_notifications", [keep_count |-> keep_count],
                        Some([count |-> r.removed]), <<>>)
        /\ rt' = None
        /\ UNCHANGED <<observers, security_alerts, records, clock, issued, delivered>>
        /\ UNCHANGED <<devVars, cmdVars, bankVars, ctlVars, svcVars, thrVars>>

\* sorted(log, key=lambda x: x['timestamp'], reverse=True): a stable sort,
\* entries of equal timestamp stay in the order the log has them in
RECURSIVE SortedByTimestampDesc(_)
SortedByTimestampDesc(log) ==
    IF log = <<>> THEN <<>>
    ELSE LET newest == CHOOSE k \in 1..Len(log) :
                          /\ \A j \in 1..Len(log) : log[j].timestamp <= log[k].timestamp
                          /\ \A j \in 1..(k - 1) : log[j].timestamp < log[k].timestamp
             rest == [j \in 1..(Len(log) - 1) |-> IF j < newest THEN log[j] ELSE log[j + 1]]
         IN  <<log[newest]>> \o SortedByTimestampDesc(rest)

\* s[:limit], for limit >= 0
Take(s, limit) == SubSeq(s, 1, Min(limit, Len(s)))

\* NotificationService.get_recent_notifications(limit)
get_recent_notifications(limit) ==
    /\ last' = Call("get_recent_notifications", [limit |-> limit],
                    Some(Entries(Take(SortedByTimestampDesc(notifications), limit))), <<>>)
    /\ rt' = None
    /\ UNCHANGED <<devVars, cmdVars, bankVars, notifVars, ctlVars, svcVars, thrVars>>

\* NotificationService.get_security_alerts(limit)
get_security_alerts(limit) ==
    /\ last' = Call("get_security_alerts", [limit |-> limit],
                    Some(Entries(Take(SortedByTimestampDesc(security_alerts), limit))), <<>>)
    /\ rt' = None
    /\ UNCHANGED <<devVars, cmdVars, bankVars, notifVars, ctlVars, svcVars, thrVars>>

----------------------------------------------------------------------------
(* Request threads: app/main.py runs the development server, which serves  *)
(* each request on a thread of its own, and no handler takes a lock.  A    *)
(* device method is taken one assignment at a time, a read one attribute   *)
(* at a time; a thread may be switched out between any two of them.        *)

\* the street light the threads act on
LightId == "SL001"

\* a write by thread t falls inside the read another thread is in the middle of
MarkReaders(t) ==
    [u \in Threads |->
        IF u # t /\ pc[u] = "get_status_info_brightness"
        THEN [loc[u] EXCEPT !.overlapped = TRUE] ELSE loc[u]]

\* what a step of a thread on the light leaves alone
ThreadStep == UNCHANGED <<cmdVars, bankVars, notifVars, ctlVars, svcVars>>

\* a thread goes on inside its handler: no call has returned
Goes(t, label) ==
    /\ pc[t] = "idle"
    /\ pc' = [pc EXCEPT ![t] = label]
    /\ UNCHANGED <<last, rt>>

\* a thread's handler returns
Returns(t, label, op, overlapped, result) ==
    /\ pc[t] = label
    /\ pc' = [pc EXCEPT ![t] = "idle"]
    /\ last' = Call(op, [thread |-> t, overlapped |-> overlapped], Some(result), <<>>)
    /\ rt' = None

\* StreetLight.activate: self.status = DeviceStatus.ACTIVE
StreetLight_activate_status(t) ==
    /\ Goes(t, "activate_brightness")
    /\ devices' = [devices EXCEPT ![LightId].status = ACTIVE]
    /\ loc' = MarkReaders(t)
    /\ ThreadStep

\* StreetLight.activate: self.brightness = 100; return True
StreetLight_activate_brightness(t) ==
    /\ Returns(t, "activate_brightness", "activate", FALSE, [ok |-> TRUE])
    /\ devices' = [devices EXCEPT ![LightId].brightness = 100]
    /\ loc' = MarkReaders(t)
    /\ ThreadStep

\* StreetLight.deactivate: self.status = DeviceStatus.INACTIVE
StreetLight_deactivate_status(t) ==
    /\ Goes(t, "deactivate_brightness")
    /\ devices' = [devices EXCEPT ![LightId].status = INACTIVE]
    /\ loc' = MarkReaders(t)
    /\ ThreadStep

\* StreetLight.deactivate: self.brightness = 0; return True
StreetLight_deactivate_brightness(t) ==
    /\ Returns(t, "deactivate_brightness", "deactivate", FALSE, [ok |-> TRUE])
    /\ devices' = [devices EXCEPT ![LightId].brightness = 0]
    /\ loc' = MarkReaders(t)
    /\ ThreadStep

\* StreetLight.set_brightness: the range test, and self.brightness = level
\* when it passes; return False when it does not
StreetLight_set_brightness_level(t, level) ==
    IF 0 <= level /\ level <= 100
    THEN /\ Goes(t, "set_brightness_status")
         /\ devices' = [devices EXCEPT ![LightId].brightness = level]
         /\ loc' = [MarkReaders(t) EXCEPT ![t].level = level]
         /\ ThreadStep
    ELSE /\ pc[t] = "idle"
         /\ Returns(t, "idle", "set_brightness", FALSE, [ok |-> FALSE])
         /\ UNCHANGED <<devices, loc>>
         /\ ThreadStep

\* StreetLight.set_brightness: self.status = ACTIVE if level > 0 else INACTIVE;
\* return True
StreetLight_set_brightness_status(t) ==
    /\ Returns(t, "set_brightness_status", "set_brightness", FALSE, [ok |-> TRUE])
    /\ devices' = [devices EXCEPT ![LightId].status =
                      IF loc[t].level > 0 THEN ACTIVE ELSE INACTIVE]
    /\ loc' = [MarkReaders(t) EXCEPT ![t] = NoLocals]
    /\ ThreadStep

\* StreetLight.get_status_info: info = self.to_dict(), which reads the status
StreetLight_get_status_info_status(t) ==
    /\ Goes(t, "get_status_info_brightness")
    /\ loc' = [loc EXCEPT ![t].status = devices[LightId].status,
                          ![t].overlapped = \E u \in Threads \ {t} : pc[u] # "idle"]
    /\ UNCHANGED devices
    /\ ThreadStep

\* StreetLight.get_status_info: 'brightness': self.brightness; return info
StreetLight_get_status_info_brightness(t) ==
    /\ Returns(t, "get_status_info_brightness", "get_status_info",
               loc[t].overlapped,
               [status |-> loc[t].status, brightness |-> devices[LightId].brightness])
    /\ loc' = [loc EXCEPT ![t] = NoLocals]
    /\ UNCHANGED devices
    /\ ThreadStep

\* a notify() by thread t overlaps the ones other threads are in the middle of
MarkNotifiers(t) ==
    [u \in Threads |->
        IF u # t /\ pc[u] # "idle" THEN [loc[u] EXCEPT !.overlapped = TRUE] ELSE loc[u]]

\* NotificationService.notify: the dict display, with 'id' read from the
\* length of the log
NotificationService_notify_build(t, message, notification_type) ==
    /\ Goes(t, "notify_append")
    /\ LET notification == [id |-> NextId(notifications), message |-> message,
                            type |-> notification_type, timestamp |-> clock]
       IN  /\ loc' = [MarkNotifiers(t) EXCEPT
                         ![t].notification = Some(notification),
                         ![t].overlapped = \E u \in Threads \ {t} : pc[u] # "idle"]
           /\ issued' = Append(issued, notification.id)
    /\ UNCHANGED <<observers, notifications, security_alerts, records, clock,
                   delivered>>
    /\ UNCHANGED <<devVars, cmdVars, bankVars, ctlVars, svcVars>>

\* NotificationService.notify: the append to the log and to the security index
NotificationService_notify_append(t) ==
    /\ pc[t] = "notify_append"
    /\ pc' = [pc EXCEPT ![t] = "notify_observers"]
    /\ LET notification == loc[t].notification[1]
       IN  /\ notifications' = Append(notifications, notification)
           /\ security_alerts' =
                 IF notification.type \in {"security", "emergency"}
                 THEN Append(security_alerts, notification) ELSE security_alerts
    /\ UNCHANGED <<observers, records, clock, issued, delivered, loc, last, rt>>
    /\ UNCHANGED <<devVars, cmdVars, bankVars, ctlVars, svcVars>>

\* NotificationService.notify: the loop over the observers; return notification
NotificationService_notify_observers(t) ==
    LET notification == loc[t].notification[1]
        svc == FanOut(Service, notification, clock, 1)
    IN  /\ Returns(t, "notify_observers", "notify", loc[t].overlapped, notification)
        /\ observers' = svc.observers
        /\ notifications' = svc.notifications
        /\ security_alerts' = svc.security_alerts
        /\ records' = svc.records
        /\ issued' = svc.issued
        /\ delivered' = svc.delivered
        /\ loc' = [loc EXCEPT ![t] = NoLocals]
        /\ UNCHANGED clock
        /\ UNCHANGED <<devVars, cmdVars, bankVars, ctlVars, svcVars>>

\* CityController() and CityController.get_instance() on a request thread,
\* statement by statement.  Objects are numbered as super().__new__ makes
\* them; 0 stands for None.  singleton.initialized is the _initialized
\* attribute of the object: "unset" until __new__ has assigned it.

\* what a step inside the constructor leaves alone
ClassStep == UNCHANGED <<cmdVars, bankVars, notifVars, auth>>

\* a thread moves from one label of the constructor to the next
Moves(t, from, to) ==
    /\ pc[t] = from
    /\ pc' = [pc EXCEPT ![t] = to]
    /\ UNCHANGED <<last, rt>>

\* the call the thread is in returns or raises
Leaves(t, from, result) ==
    /\ pc[t] = from
    /\ pc' = [pc EXCEPT ![t] = "idle"]
    /\ loc' = [loc EXCEPT ![t] = NoLocals]
    /\ last' = Call(IF loc[t].via_get_instance THEN "get_instance" ELSE "CityController",
                    [thread |-> t, overlapped |-> FALSE], Some(result), <<>>)
    /\ rt' = None

\* __new__: if cls._instance is None (the unlocked test)
CityController_new_test(t) ==
    /\ \/ /\ singleton.instance = 0
          /\ Moves(t, "idle", "new_lock")
       \/ /\ singleton.instance # 0
          /\ Moves(t, "idle", "new_return")
    /\ UNCHANGED <<devices, ctlVars, singleton, loc>>
    /\ ClassStep

\* get_instance: if cls._instance is None: cls._instance = cls(), whose
\* __new__ begins with its own test; else return cls._instance
CityController_get_instance_test(t) ==
    /\ \/ /\ singleton.instance = 0
          /\ Moves(t, "idle", "new_test")
          /\ loc' = [loc EXCEPT ![t].via_get_instance = TRUE]
       \/ /\ singleton.instance # 0
          /\ pc[t] = "idle"
          /\ pc' = pc
          /\ loc' = loc
          /\ last' = Call("get_instance", [thread |-> t, overlapped |-> FALSE],
                          Some([raised |-> FALSE, instance |-> singleton.instance]), <<>>)
          /\ rt' = None
    /\ UNCHANGED <<devices, ctlVars, singleton>>
    /\ ClassStep

\* __new__ called from get_instance: if cls._instance is None
CityController_new_test_inner(t) ==
    /\ \/ /\ singleton.instance = 0
          /\ Moves(t, "new_test", "new_lock")
       \/ /\ singleton.instance # 0
          /\ Moves(t, "new_test", "new_return")
    /\ UNCHANGED <<devices, ctlVars, singleton, loc>>
    /\ ClassStep

\* __new__: with cls._lock
CityController_new_lock(t) ==
    /\ singleton.lock = ""
    /\ Moves(t, "new_lock", "new_test_locked")
    /\ singleton' = [singleton EXCEPT !.lock = t]
    /\ UNCHANGED <<devices, ctlVars, loc>>
    /\ ClassStep

\* __new__: if cls._instance is None (under the lock); the lock is released
\* when the test fails
CityController_new_test_locked(t) ==
    /\ \/ /\ singleton.instance = 0
          /\ Moves(t, "new_test_locked", "new_create")
          /\ UNCHANGED singleton
       \/ /\ singleton.instance # 0
          /\ Moves(t, "new_test_locked", "new_return")
          /\ singleton' = [singleton EXCEPT !.lock = ""]
    /\ UNCHANGED <<devices, ctlVars, loc>>
    /\ ClassStep

\* __new__: cls._instance = super().__new__(cls)
CityController_new_create(t) ==
    /\ Moves(t, "new_create", "new_flag")
    /\ singleton' = [singleton EXCEPT !.created = @ + 1,
                                      !.instance = singleton.created + 1,
                                      !.initialized = "unset"]
    /\ UNCHANGED <<devices, ctlVars, loc>>
    /\ ClassStep

\* __new__: cls._instance._initialized = False, and the lock is released
CityController_new_flag(t) ==
    /\ Moves(t, "new_flag", "new_return")
    /\ singleton' = [singleton EXCEPT !.initialized = "false", !.lock = ""]
    /\ UNCHANGED <<devices, ctlVars, loc>>
    /\ ClassStep

\* __new__: return cls._instance
CityController_new_return(t) ==
    /\ Moves(t, "new_return", "init_test")
    /\ loc' = [loc EXCEPT ![t].obj = singleton.instance]
    /\ UNCHANGED <<devices, ctlVars, singleton>>
    /\ ClassStep

\* what the caller gets when the constructor is through: CityController()
\* returns the object; get_instance assigns it to cls._instance first and
\* returns cls._instance
Constructed(t) ==
    /\ singleton' = IF loc[t].via_get_instance
                    THEN [singleton EXCEPT !.instance = loc[t].obj] ELSE singleton
    /\ Leaves(t, pc[t], [raised |-> FALSE, instance |->
                            IF loc[t].via_get_instance
                            THEN singleton'.instance ELSE loc[t].obj])

\* __init__: if self._initialized: return.  The attribute does not exist
\* between the two assignments of __new__, and reading it raises.
CityController_init_test(t) ==
    /\ pc[t] = "init_test"
    /\ CASE singleton.initialized = "unset" ->
                /\ Leaves(t, "init_test", [raised |-> TRUE, instance |-> 0])
                /\ UNCHANGED singleton
         [] singleton.initialized = "true" -> Constructed(t)
         [] singleton.initialized = "false" ->
                /\ Moves(t, "init_test", "init_devices")
                /\ UNCHANGED <<singleton, loc>>
    /\ UNCHANGED <<devices, ctlVars>>
    /\ ClassStep

\* __init__: self._devices = {}
CityController_init_devices(t) ==
    /\ Moves(t, "init_devices", "init_stats")
    /\ devices' = [x \in {} |-> StreetLight]
    /\ singleton' = [singleton EXCEPT !.inits = @ + 1]
    /\ UNCHANGED <<ctlVars, loc>>
    /\ ClassStep

\* __init__: self._command_history = []; self._routines = []; self._stats = {...}
CityController_init_stats(t) ==
    /\ Moves(t, "init_stats", "init_flag")
    /\ command_history' = <<>>
    /\ stats' = [active_devices |-> 0, total_commands |-> 0]
    /\ UNCHANGED <<devices, singleton, loc>>
    /\ ClassStep

\* __init__: self._initialized = True
CityController_init_flag(t) ==
    /\ pc[t] = "init_flag"
    /\ singleton' = [IF loc[t].via_get_instance
                     THEN [singleton EXCEPT !.instance = loc[t].obj]
                     ELSE singleton EXCEPT !.initialized = "true"]
    /\ Leaves(t, "init_flag", [raised |-> FALSE, instance |->
                                  IF loc[t].via_get_instance
                                  THEN singleton'.instance ELSE loc[t].obj])
    /\ UNCHANGED <<devices, ctlVars>>
    /\ ClassStep

\* a caller that holds the constructed controller registers a device
Caller_register_device(id) ==
    /\ singleton.initialized = "true"
    /\ register_device(id)

----------------------------------------------------------------------------
(* Specification Spec: the invoker over one command object of each class,  *)
(* a signal command aimed at a street light, and a command aimed at an id  *)
(* that is never registered; devices may be unregistered meanwhile.        *)

Pool ==
    << LightOnCommand("SL001", 100),
       LightOffCommand("SL001"),
       TrafficGreenCommand("TS001"),
       TrafficRedCommand("TS001"),
       ProcessPaymentCommand("R001", 600, "fiat"),
       TrafficGreenCommand("SL001"),
       LightOnCommand(AbsentId, 100) >>

Init ==
    /\ InitDevices
    /\ cmds = Pool
    /\ InitInvoker
    /\ InitBanking
    /\ InitNotify
    /\ InitController
    /\ InitThreads
    /\ InitServices
    /\ InitCalls

Next ==
    \/ \E i \in 1..Len(Pool) : Len(history) < MaxCalls /\ CommandInvoker_execute(i)
    \/ CommandInvoker_undo
    \/ \E i \in 1..Len(Pool) : Command_undo_direct(i)
    \/ \E id \in {"SL001", "TS001"} : unregister_device(id)

Spec == Init /\ [][Next]_vars

----------------------------------------------------------------------------
(* Specification SpecLight: the invoker over the street-light commands,    *)
(* with the light's brightness set and the light unregistered and          *)
(* registered again meanwhile.                                             *)

LightPool ==
    << LightOnCommand("SL001", 100), LightOffCommand("SL001") >>

LightLevels == {0, 40, 101}

InitLight ==
    /\ InitDevices
    /\ cmds = LightPool
    /\ InitInvoker
    /\ InitBanking
    /\ InitNotify
    /\ InitController
    /\ InitThreads
    /\ InitServices
    /\ InitCalls

NextLight ==
    \/ \E i \in 1..Len(LightPool) :
          Len(history) < MaxLightCalls /\ CommandInvoker_execute(i)
    \/ CommandInvoker_undo
    \/ \E b \in LightLevels : set_light_brightness("SL001", b)
    \/ unregister_device("SL001")
    \/ register_device("SL001")

SpecLight == InitLight /\ [][NextLight]_vars

----------------------------------------------------------------------------
(* Specification SpecSignal: the invoker over the traffic-signal commands, *)
(* with the signal set and deactivated meanwhile.                          *)

SignalPool ==
    << TrafficGreenCommand("TS001"), TrafficRedCommand("TS001") >>

SignalInputs == {"yellow", "blue"}

InitSignal ==
    /\ InitDevices
    /\ cmds = SignalPool
    /\ InitInvoker
    /\ InitBanking
    /\ InitNotify
    /\ InitController
    /\ InitThreads
    /\ InitServices
    /\ InitCalls

NextSignal ==
    \/ \E i \in 1..Len(SignalPool) :
          Len(history) < MaxSignalCalls /\ CommandInvoker_execute(i)
    \/ CommandInvoker_undo
    \/ \E s \in SignalInputs : set_traffic_signal("TS001", s)
    \/ deactivate_device("TS001")

SpecSignal == InitSignal /\ [][NextSignal]_vars

----------------------------------------------------------------------------
(* Specification SpecNotify: one NotificationService, with a               *)
(* SecurityObserver attached and detached meanwhile.                       *)

KeepCounts == 0..MaxNotify

Elapsed == {0, 1}

NotifyTypes == {"info", "transaction", "emergency"}

Attachable == {"security"}

InitNotifyOnly ==
    /\ InitDevices
    /\ cmds = <<>>
    /\ InitInvoker
    /\ InitBanking
    /\ InitNotify
    /\ InitController
    /\ InitThreads
    /\ InitServices
    /\ InitCalls

NextNotify ==
    \/ \E o \in Attachable : attach(o)
    \/ \E o \in Attachable : detach(o)
    \/ \E t \in NotifyTypes, e \in Elapsed :
          Len(issued) < MaxNotify /\ notify("m", t, e)
    \/ \E k \in KeepCounts : clear_old_notifications(k)

SpecNotify == InitNotifyOnly /\ [][NextNotify]_vars

----------------------------------------------------------------------------
(* Specification SpecFanOut: one NotificationService with observers that   *)
(* raise, that notify again from inside update(), and that do neither,     *)
(* attached and detached in any order.                                     *)

FanObservers == {"raising", "echoing", "plain"}

FanTypes == {"info", "security"}

NextFanOut ==
    \/ \E o \in FanObservers : attach(o)
    \/ \E o \in FanObservers : detach(o)
    \/ \E t \in FanTypes : Len(notifications) < MaxFan /\ notify("m", t, 1)

SpecFanOut == InitNotifyOnly /\ [][NextFanOut]_vars

----------------------------------------------------------------------------
(* Specification SpecDetach: one NotificationService with an observer that *)
(* detaches itself from inside update().                                   *)

DetachObservers == {"leaving", "plain", "security"}

NextDetach ==
    \/ \E o \in DetachObservers : attach(o)
    \/ \E o \in DetachObservers : detach(o)
    \/ Len(notifications) < MaxFan /\ notify("m", "security", 1)

SpecDetach == InitNotifyOnly /\ [][NextDetach]_vars

----------------------------------------------------------------------------
(* Specification SpecObservers: one NotificationService with an observer   *)
(* of each class of the module attached, notifications of every kind, and  *)
(* the two queries.                                                        *)

QueryLimits == {1, 2}

InitObservers ==
    /\ InitDevices
    /\ cmds = <<>>
    /\ InitInvoker
    /\ InitBanking
    /\ observers = <<"security", "transaction", "emergency">>
    /\ notifications = <<>>
    /\ security_alerts = <<>>
    /\ records = [o \in AllObservers |-> <<>>]
    /\ clock = 0
    /\ issued = <<>>
    /\ delivered = <<>>
    /\ InitController
    /\ InitThreads
    /\ InitServices
    /\ InitCalls

NextObservers ==
    \/ \E t \in NotificationTypes, e \in Elapsed :
          Len(notifications) < MaxKinds /\ notify("m", t, e)
    \/ \E limit \in QueryLimits : get_recent_notifications(limit)
    \/ \E limit \in QueryLimits : get_security_alerts(limit)

SpecObservers == InitObservers /\ [][NextObservers]_vars

----------------------------------------------------------------------------
(* Specification SpecTrim: the service with its three observers attached,  *)
(* its log trimmed between notifications and its security alerts queried.  *)

MaxTrim == 3

TrimTypes == {"info", "security", "emergency"}

TrimKeep == {0, 1, 2}

NextTrim ==
    \/ \E t \in TrimTypes, e \in Elapsed :
          Len(issued) < MaxTrim /\ notify("m", t, e)
    \/ \E k \in TrimKeep : clear_old_notifications(k)
    \/ \E limit \in QueryLimits : get_security_alerts(limit)

SpecTrim == InitObservers /\ [][NextTrim]_vars

----------------------------------------------------------------------------
(* Specification SpecControl: the device-control endpoint of app/main.py   *)
(* over the registered devices and an id that is not registered, the       *)
(* service with the two observers main.py attaches.                        *)

MaxControl == 2

ControlIds == {"SL001", "TS001", AbsentId}

ControlInputs == ControlActions \cup {"blink"}

InitControl ==
    /\ InitDevices
    /\ cmds = <<>>
    /\ InitInvoker
    /\ InitBanking
    /\ observers = <<"security", "transaction">>
    /\ notifications = <<>>
    /\ security_alerts = <<>>
    /\ records = [o \in AllObservers |-> <<>>]
    /\ clock = 0
    /\ issued = <<>>
    /\ delivered = <<>>
    /\ InitController
    /\ InitThreads
    /\ InitServices
    /\ InitCalls

NextControl ==
    \E id \in ControlIds, action \in ControlInputs, e \in Elapsed :
        /\ action \in ControlActions => Len(command_history) < MaxControl
        /\ control_device(id, action, e)

SpecControl == InitControl /\ [][NextControl]_vars

----------------------------------------------------------------------------
(* Specification SpecHistory: the invoker with the two signal commands and *)
(* the history query.                                                      *)

HistoryLimits == 0..(MaxHistory + 1)

NextHistory ==
    \/ \E i \in 1..Len(SignalPool) :
          Len(history) < MaxHistory /\ CommandInvoker_execute(i)
    \/ CommandInvoker_undo
    \/ \E limit \in HistoryLimits : get_history(limit)

SpecHistory == InitSignal /\ [][NextHistory]_vars

----------------------------------------------------------------------------
(* Specification SpecDevices: the street light and the camera under the    *)
(* controller's device methods, the routines, and the invoker over light   *)
(* commands aimed at the street light and at the camera.                   *)

DevicePool ==
    << LightOnCommand("SL001", 100), LightOffCommand("SL001"),
       LightOnCommand("SC001", 100) >>

BrightnessInputs == {-1, 0, 40, 101}

Hours == {0, 3}

Switched == {"SL001", "SC001"}

InitDevicesSpec ==
    /\ InitDevices
    /\ cmds = DevicePool
    /\ InitInvoker
    /\ InitBanking
    /\ InitNotify
    /\ InitController
    /\ InitThreads
    /\ InitServices
    /\ InitCalls

NextDevices ==
    \/ \E id \in Switched : activate_device(id)
    \/ \E id \in Switched : deactivate_device(id)
    \/ \E b \in BrightnessInputs : set_light_brightness("SL001", b)
    \/ \E i \in 1..Len(DevicePool) :
          Len(history) < MaxDeviceCalls /\ CommandInvoker_execute(i)
    \/ CommandInvoker_undo
    \/ SunriseRoutine_execute
    \/ SunsetRoutine_execute
    \/ \E h \in Hours : EnergyOptimizationRoutine_execute(h)

SpecDevices == InitDevicesSpec /\ [][NextDevices]_vars

----------------------------------------------------------------------------
(* Specification SpecSetters: the three devices under the controller's     *)
(* device methods alone, with levels and signals in and out of range.      *)

SetterLevels == {-1, 0, 1, 100, 101}

NextSetters ==
    \/ \E id \in DeviceIds : activate_device(id)
    \/ \E id \in DeviceIds : deactivate_device(id)
    \/ \E b \in SetterLevels : set_light_brightness("SL001", b)
    \/ \E x \in Signals \cup SignalInputs : set_traffic_signal("TS001", x)

SpecSetters == InitDevicesSpec /\ [][NextSetters]_vars

----------------------------------------------------------------------------
(* Specification SpecController: the controller's registry, device methods *)
(* and execute_command over the street light and the traffic signal.       *)

ControllerPool ==
    << LightOnCommand("SL001", 100), LightOffCommand("SL001"),
       TrafficGreenCommand("TS001") >>

Registered == {"SL001", "TS001"}

InitControllerSpec ==
    /\ InitDevices
    /\ cmds = ControllerPool
    /\ InitInvoker
    /\ InitBanking
    /\ InitNotify
    /\ InitController
    /\ InitThreads
    /\ InitServices
    /\ InitCalls

NextController ==
    \/ \E id \in Registered : register_device(id)
    \/ \E id \in Registered : unregister_device(id)
    \/ \E i \in 1..Len(ControllerPool) :
          Len(command_history) < MaxCommands /\ execute_command(i)
    \/ \E id \in Registered : activate_device(id)
    \/ \E id \in Registered : deactivate_device(id)
    \/ \E x \in Signals : set_traffic_signal("TS001", x)
    \/ \E b \in LightLevels : set_light_brightness("SL001", b)

SpecController == InitControllerSpec /\ [][NextController]_vars

----------------------------------------------------------------------------
(* Specification SpecRegistry: the controller's registry, with devices     *)
(* registered, unregistered and looked up under present and absent ids,    *)
(* and changed while they are registered.                                  *)

NextRegistry ==
    \/ \E id \in Registered : register_device(id)
    \/ \E id \in Registered \cup {AbsentId} : unregister_device(id)
    \/ \E id \in Registered \cup {AbsentId} : CityController_get_device(id)
    \/ \E id \in Registered : activate_device(id)
    \/ \E b \in LightLevels : set_light_brightness("SL001", b)

SpecRegistry == InitControllerSpec /\ [][NextRegistry]_vars

----------------------------------------------------------------------------
(* Specification SpecTurnOn: the invoker over LightOnCommand objects built  *)
(* with the default brightness, a level inside 1..100, level 0 and a level *)
(* above 100, and the history query of the last entry.                     *)

TurnOnPool ==
    << LightOnCommand("SL001", 100), LightOnCommand("SL001", 40),
       LightOnCommand("SL001", 0), LightOnCommand("SL001", 150) >>

InitTurnOn ==
    /\ InitDevices
    /\ cmds = TurnOnPool
    /\ InitInvoker
    /\ InitBanking
    /\ InitNotify
    /\ InitController
    /\ InitThreads
    /\ InitServices
    /\ InitCalls

NextTurnOn ==
    \/ \E i \in 1..Len(TurnOnPool) :
          Len(history) < MaxDeviceCalls /\ CommandInvoker_execute(i)
    \/ CommandInvoker_undo
    \/ get_history(1)
    \/ deactivate_device("SL001")

SpecTurnOn == InitTurnOn /\ [][NextTurnOn]_vars

----------------------------------------------------------------------------
(* Specification SpecTorn: one request thread changes the street light     *)
(* while another reads it.                                                 *)

Writer == "t1"
Reader == "t2"

TornLevels == {0, 40, 101}

NextTorn ==
    \/ StreetLight_activate_status(Writer)
    \/ StreetLight_activate_brightness(Writer)
    \/ StreetLight_deactivate_status(Writer)
    \/ StreetLight_deactivate_brightness(Writer)
    \/ \E level \in TornLevels : StreetLight_set_brightness_level(Writer, level)
    \/ StreetLight_set_brightness_status(Writer)
    \/ StreetLight_get_status_info_status(Reader)
    \/ StreetLight_get_status_info_brightness(Reader)

SpecTorn == InitDevicesSpec /\ [][NextTorn]_vars

----------------------------------------------------------------------------
(* Specification SpecRace: two request threads call notify() on the one    *)
(* NotificationService.                                                    *)

RaceTypes == {"info", "security"}

NextRace ==
    \/ attach("security")
    \/ \E t \in Threads, k \in RaceTypes :
          Len(issued) < MaxRace /\ NotificationService_notify_build(t, "m", k)
    \/ \E t \in Threads : NotificationService_notify_append(t)
    \/ \E t \in Threads : NotificationService_notify_observers(t)

SpecRace == InitNotifyOnly /\ [][NextRace]_vars

----------------------------------------------------------------------------
(* Specification SpecSingleton: two threads construct the controller and   *)
(* ask for the instance, from the class as it is before any construction,  *)
(* and register devices on the controller they got.                        *)

InitSingleton ==
    /\ devices = [x \in {} |-> StreetLight]
    /\ cmds = <<>>
    /\ InitInvoker
    /\ InitBanking
    /\ InitNotify
    /\ InitController
    /\ InitThreads
    /\ singleton = [instance |-> 0, initialized |-> "unset", lock |-> "",
                    created |-> 0, inits |-> 0]
    /\ auth = [failed_attempts |-> None, lockout_time |-> None, sessions |-> 0,
               streak |-> 0]
    /\ InitCalls

NextSingleton ==
    \/ \E t \in Threads : CityController_new_test(t)
    \/ \E t \in Threads : CityController_get_instance_test(t)
    \/ \E t \in Threads : CityController_new_test_inner(t)
    \/ \E t \in Threads : CityController_new_lock(t)
    \/ \E t \in Threads : CityController_new_test_locked(t)
    \/ \E t \in Threads : CityController_new_create(t)
    \/ \E t \in Threads : CityController_new_flag(t)
    \/ \E t \in Threads : CityController_new_return(t)
    \/ \E t \in Threads : CityController_init_test(t)
    \/ \E t \in Threads : CityController_init_devices(t)
    \/ \E t \in Threads : CityController_init_stats(t)
    \/ \E t \in Threads : CityController_init_flag(t)
    \/ \E id \in Registered : Caller_register_device(id)

SpecSingleton == InitSingleton /\ [][NextSingleton]_vars

\* the same with one call at a time: a thread moves only while the others
\* are between calls
OneAtATime ==
    \A t \in Threads :
        pc'[t] # pc[t] => \A u \in Threads \ {t} : pc[u] = "idle"

SpecSingletonSerial == InitSingleton /\ [][NextSingleton /\ OneAtATime]_vars

----------------------------------------------------------------------------
(* Specification SpecUndoLast: the controller's execute_command and        *)
(* undo_last_command over the street light and the traffic signal.         *)

NextUndoLast ==
    \/ \E i \in 1..Len(ControllerPool) :
          Len(command_history) < MaxCommands /\ execute_command(i)
    \/ undo_last_command
    \/ \E b \in LightLevels : set_light_brightness("SL001", b)

SpecUndoLast == InitControllerSpec /\ [][NextUndoLast]_vars

----------------------------------------------------------------------------
(* Specification SpecRoutine: the three routines run through the template  *)
(* with a fault in any one step or in none, the street light switched and  *)
(* dimmed in between.                                                      *)

FaultySteps == 0..Len(Steps)

RoutineLevels == {0, 40}

InitRoutine ==
    /\ InitDevices
    /\ cmds = <<>>
    /\ InitInvoker
    /\ InitBanking
    /\ InitNotify
    /\ InitController
    /\ InitThreads
    /\ InitServices
    /\ InitCalls

NextRoutine ==
    \/ \E r \in RoutineNames, f \in FaultySteps, h \in Hours :
          DailyRoutineTemplate_execute(r, f, h)
    \/ activate_device("SL001")
    \/ deactivate_device("SL001")
    \/ \E b \in RoutineLevels : set_light_brightness("SL001", b)

SpecRoutine == InitRoutine /\ [][NextRoutine]_vars

----------------------------------------------------------------------------
(* AuthService: app/security/auth.py, for the registered user R001 without *)
(* MFA.  Time is the clock, in minutes.                                    *)

\* timedelta(minutes=15)
LockoutMinutes == 15

\* if attempts >= 5
LockoutAttempts == 5

\* AuthService._is_locked_out at the time now
is_locked_out(a, now) ==
    ~IsNone(a.lockout_time) /\ now < a.lockout_time[1]

\* AuthService._record_failed_attempt at the time now
record_failed_attempt(a, now) ==
    LET attempts == (IF IsNone(a.failed_attempts) THEN 0 ELSE a.failed_attempts[1]) + 1
    IN  [a EXCEPT !.failed_attempts = Some(attempts),
                  !.lockout_time = IF attempts >= LockoutAttempts
                                   THEN Some(now + LockoutMinutes) ELSE @,
                  !.streak = IF attempts >= LockoutAttempts THEN 0 ELSE @ + 1]

\* AuthService.authenticate('R001', password), called elapsed minutes after
\* the clock's last reading, with the right password or a wrong one
AuthService_authenticate(correct, elapsed) ==
    LET now == clock + elapsed
        args == [user_id |-> "R001", correct |-> correct]
    IN  /\ clock' = now
        /\ IF is_locked_out(auth, now)
           THEN /\ auth' = auth
                /\ last' = Call("authenticate", args,
                                Some([success |-> FALSE,
                                      error |-> <<"Account locked due to too many failed attempts">>,
                                      locked_until |-> auth.lockout_time[1]]), <<>>)
           ELSE IF ~correct
           THEN /\ auth' = record_failed_attempt(auth, now)
                /\ last' = Call("authenticate", args,
                                Some([success |-> FALSE,
                                      error |-> <<"Invalid credentials">>]), <<>>)
           ELSE /\ auth' = [auth EXCEPT !.failed_attempts = Some(0),
                                        !.sessions = @ + 1,
                                        !.streak = 0]
                /\ last' = Call("authenticate", args,
                                Some([success |-> TRUE, role |-> "resident"]), <<>>)
        /\ rt' = None
        /\ UNCHANGED <<devVars, cmdVars, bankVars, ctlVars, thrVars, singleton>>
        /\ UNCHANGED <<observers, notifications, security_alerts, records,
                       issued, delivered>>

----------------------------------------------------------------------------
(* Specification SpecBank: the banking controller under payments and       *)
(* refunds called on it directly and through one payment command run by    *)
(* the invoker and undone on the command.                                  *)

MaxPayments == 2

\* the amounts paid, Python ints as a caller passes them
Amounts == {7, 44, 600}

PaymentTypes == {"fiat", "bitcoin"}

BankPool == << ProcessPaymentCommand("R001", 44, "fiat") >>

InitBank ==
    /\ InitDevices
    /\ cmds = BankPool
    /\ InitInvoker
    /\ InitBanking
    /\ InitNotify
    /\ InitController
    /\ InitThreads
    /\ InitServices
    /\ InitCalls

NextBank ==
    \/ \E a \in Amounts, t \in PaymentTypes :
          /\ Len(transactions) < MaxPayments
          /\ BankingController_process_payment("R001", a, t)
    \/ \E id \in 1..(MaxPayments + 1) : BankingController_refund_transaction(id)
    \/ Len(transactions) < MaxPayments /\ Len(history) < MaxPayments
          /\ CommandInvoker_execute(1)
    \/ Command_undo_direct(1)

SpecBank == InitBank /\ [][NextBank]_vars

----------------------------------------------------------------------------
(* Specification SpecPayments: payments and refunds called on the banking  *)
(* controller, with amounts of nothing, of little and of more than half    *)
(* the balance.                                                            *)

PaidAmounts == {0, 7, 600}

InitPayments ==
    /\ InitDevices
    /\ cmds = <<>>
    /\ InitInvoker
    /\ InitBanking
    /\ InitNotify
    /\ InitController
    /\ InitThreads
    /\ InitServices
    /\ InitCalls

NextPayments ==
    \/ \E a \in PaidAmounts, t \in PaymentTypes :
          /\ Len(transactions) < MaxPayments
          /\ BankingController_process_payment("R001", a, t)
    \/ \E id \in 1..(MaxPayments + 1) : BankingController_refund_transaction(id)

SpecPayments == InitPayments /\ [][NextPayments]_vars

----------------------------------------------------------------------------
(* Specification SpecAuth: logins of R001 with right and wrong passwords,  *)
(* at once, a minute later or a lockout window later.                      *)

MaxMinutes == 32

MaxSessions == 2

Waits == {0, 1, LockoutMinutes}

InitAuth ==
    /\ InitDevices
    /\ cmds = <<>>
    /\ InitInvoker
    /\ InitBanking
    /\ InitNotify
    /\ InitController
    /\ InitThreads
    /\ InitServices
    /\ InitCalls

NextAuth ==
    \E correct \in BOOLEAN, e \in Waits :
        /\ clock + e <= MaxMinutes
        /\ (correct /\ ~is_locked_out(auth, clock + e)) => auth.sessions < MaxSessions
        /\ AuthService_authenticate(correct, e)

SpecAuth == InitAuth /\ [][NextAuth]_vars

----------------------------------------------------------------------------
(* Properties *)

\* the command whose execute the invoker ran last, while rt holds
RtCommand == cmds[rt[1].cmd]

\* Invoker.execute(c) has run and Invoker.undo() has run right after it
RoundTripDone == ~IsNone(rt) /\ rt[1].undone

\* the device command c aimed, before the execute, at a registered device of
\* this class
RtAimedAt(class) ==
    /\ RtCommand.device_id \in DOMAIN rt[1].pre
    /\ rt[1].pre[RtCommand.device_id].device_type = class

\* the target device is registered and is exactly as it was before the execute
RtRestored ==
    /\ RtCommand.device_id \in DOMAIN devices
    /\ devices[RtCommand.device_id] = rt[1].pre[RtCommand.device_id]

\* C1: for every registered street light, in any state, Invoker.execute of a
\* LightOnCommand on it followed at once by Invoker.undo() leaves the light
\* with the status and the brightness it had before the execute.
C1_TurnOnRoundTrip ==
    (RoundTripDone /\ RtCommand.kind = "LightOn" /\ RtAimedAt("StreetLight"))
        => RtRestored

\* C2: the undo stack is LIFO.  Every Invoker.execute pushes the executed
\* command on top of the stack; every Invoker.undo on a non-empty stack
\* removes the top command, calls undo() on that command and on no other,
\* and has that undo's effect; on an empty stack it calls no undo; and no
\* other operation touches the stack.
C2_Step ==
    /\ last'.op = "Invoker.execute" =>
          undo_stack' = undo_stack \o <<last'.args.cmd>>
    /\ (last'.op = "Invoker.undo" /\ undo_stack # <<>>) =>
          LET top == undo_stack[Len(undo_stack)]
              x == Command_undo(cmds[top], devices, balances, transactions)
          IN  /\ undo_stack' = SubSeq(undo_stack, 1, Len(undo_stack) - 1)
              /\ last'.undone = <<top>>
              /\ devices' = x.devs
              /\ balances' = x.bal
              /\ last'.result = Some(x.result)
    /\ (last'.op = "Invoker.undo" /\ undo_stack = <<>>) =>
          (undo_stack' = <<>> /\ last'.undone = <<>>)
    /\ last'.op \notin {"Invoker.execute", "Invoker.undo"} =>
          undo_stack' = undo_stack

C2_UndoStackLIFO == [][C2_Step]_vars

\* C2 witness: two different commands were executed and the later one undone
C2_Witness ==
    /\ last.op = "Invoker.undo"
    /\ Len(history) = 2
    /\ history[1].command # history[2].command
    /\ last.undone = <<history[2].command>>
    /\ undo_stack = <<history[1].command>>

IsPrefix(s, t) == Len(s) <= Len(t) /\ SubSeq(t, 1, Len(s)) = s

\* C3: the invoker's history is append-only.  Every step leaves the earlier
\* history a prefix of the later one; an execute appends exactly one entry,
\* for the executed command and with the result it returned, whether it
\* succeeded or not; undo and every other operation leave the history as it is.
C3_Step ==
    /\ IsPrefix(history, history')
    /\ last'.op = "Invoker.execute" =>
          /\ Len(history') = Len(history) + 1
          /\ history'[Len(history')] =
                [command |-> last'.args.cmd, result |-> last'.result[1]]
    /\ last'.op # "Invoker.execute" => history' = history

C3_HistoryAppendOnly == [][C3_Step]_vars

\* C3 witness: a failed execute and a successful one are both in the history,
\* and an undo has run since
C3_Witness ==
    /\ last.op = "Invoker.undo"
    /\ Len(history) = 2
    /\ ~history[1].result.success
    /\ history[2].result.success

\* the device command c finds no device to act on
NotFound(c, devs) ==
    \/ c.kind \in {"LightOn", "LightOff"} /\ c.device_id \notin DOMAIN devs
    \/ /\ c.kind \in {"TrafficGreen", "TrafficRed"}
       /\ \/ c.device_id \notin DOMAIN devs
          \/ devs[c.device_id].device_type # "TrafficSignal"

\* the error message the command is to return when it finds no device
NotFoundMessage(c) ==
    IF c.kind \in {"LightOn", "LightOff"}
    THEN <<"Device ", c.device_id, " not found">>
    ELSE <<"Traffic signal ", c.device_id, " not found">>

\* C4: not-found is a structured result.  An execute of TurnOn or TurnOff for
\* an id that is not registered, or of SetSignalGreen or SetSignalRed for an
\* id that is not registered or is no traffic signal, returns success false
\* with the error "Device <id> not found" (light commands) or "Traffic signal
\* <id> not found" (signal commands), changes no device, and the invoker's
\* history gains one entry with success false.
C4_Step ==
    (/\ last'.op = "Invoker.execute"
     /\ IsDeviceCommand(cmds[last'.args.cmd])
     /\ NotFound(cmds[last'.args.cmd], devices))
    => /\ last'.result =
            Some([success |-> FALSE, error |-> NotFoundMessage(cmds[last'.args.cmd])])
       /\ devices' = devices
       /\ Len(history') = Len(history) + 1
       /\ history'[Len(history')].result.success = FALSE

C4_NotFoundIsResult == [][C4_Step]_vars

\* C4 witness: a light command for an unregistered id and a signal command
\* for a street light have both been executed and have both failed
C4_Witness ==
    /\ last.op = "Invoker.execute"
    /\ Len(history) = 2
    /\ cmds[history[1].command].kind = "LightOn"
    /\ cmds[history[1].command].device_id \notin DOMAIN devices
    /\ history[1].result = [success |-> FALSE, error |-> <<"Device ", "SL999", " not found">>]
    /\ cmds[history[2].command].kind = "TrafficGreen"
    /\ cmds[history[2].command].device_id \in DOMAIN devices
    /\ history[2].result =
          [success |-> FALSE, error |-> <<"Traffic signal ", "SL001", " not found">>]

\* no execute of the command object cmds[i] has succeeded (every execute of
\* these specifications goes through the invoker, whose history keeps them)
NeverSucceeded(i) ==
    \A k \in 1..Len(history) :
        history[k].command = i => ~history[k].result.success

\* C5: undo() of a command of any of the five classes that was never
\* executed, or whose executions all failed, returns a dict with success
\* false and an error, and changes no device, no balance and no transaction.
C5_Step ==
    (/\ last'.op \in {"Command.undo", "Invoker.undo"}
     /\ last'.undone # <<>>
     /\ NeverSucceeded(last'.undone[1]))
    => /\ last'.result # None
       /\ DOMAIN last'.result[1] = {"success", "error"}
       /\ last'.result[1].success = FALSE
       /\ devices' = devices
       /\ balances' = balances
       /\ transactions' = transactions

C5_UndoWithoutExecuteFails == [][C5_Step]_vars

\* C5 witness: undo() was called on a command whose one execute failed for
\* want of its device, after another command had switched the signal on
C5_Witness ==
    /\ last.op = "Command.undo"
    /\ NeverSucceeded(last.args.cmd)
    /\ \E k \in 1..Len(history) : history[k].command = last.args.cmd
    /\ "TS001" \in DOMAIN devices
    /\ devices["TS001"].status = ACTIVE
    /\ last.result[1].success = FALSE

\* C6: for a device-control command whose execute returned success and whose
\* target device is still registered, the undo() that follows returns
\* success; stated for the undo the invoker runs right after the execute.
C6_UndoSucceedsAfterExecute ==
    (/\ RoundTripDone
     /\ IsDeviceCommand(RtCommand)
     /\ history[Len(history)].result.success
     /\ RtCommand.device_id \in DOMAIN devices)
    => (last.op = "Invoker.undo" /\ last.result[1].success)

\* C7: for every registered street light, in any state, Invoker.execute of a
\* LightOffCommand on it followed at once by Invoker.undo() leaves the light
\* with the brightness and the status it had before the execute.
C7_TurnOffRoundTrip ==
    (RoundTripDone /\ RtCommand.kind = "LightOff" /\ RtAimedAt("StreetLight"))
        => RtRestored

\* C7 witness: a light at brightness 40 was switched off and the switching
\* off undone
C7_Witness ==
    /\ RoundTripDone
    /\ RtCommand.kind = "LightOff"
    /\ RtAimedAt("StreetLight")
    /\ rt[1].pre[RtCommand.device_id].brightness = 40
    /\ last.op = "Invoker.undo"
    /\ last.result[1].success

\* C8: for every registered traffic signal, in any state, Invoker.execute of a
\* TrafficGreenCommand or TrafficRedCommand on it followed at once by
\* Invoker.undo() leaves the signal with the current_signal and the status it
\* had before the execute.
C8_SignalRoundTrip ==
    (/\ RoundTripDone
     /\ RtCommand.kind \in {"TrafficGreen", "TrafficRed"}
     /\ RtAimedAt("TrafficSignal"))
        => RtRestored

\* C9: notification ids are monotonic.  Every id notify() returns is greater
\* than every id it returned before, and no two notifications in the log
\* share an id.
C9_IdsMonotonic ==
    /\ \A a, b \in 1..Len(issued) : a < b => issued[a] < issued[b]
    /\ \A a, b \in 1..Len(notifications) :
          a # b => notifications[a].id # notifications[b].id

\* C10: clear_old_notifications(keep_count), for keep_count >= 0 and a log of n
\* entries, leaves the last min(keep_count, n) entries in their order and
\* returns n minus the length of the log it leaves.
C10_Step ==
    last'.op = "clear_old_notifications" =>
        LET n == Len(notifications)
            keep_count == last'.args.keep_count
            kept == IF keep_count < n THEN keep_count ELSE n
        IN  /\ notifications' = SubSeq(notifications, n - kept + 1, n)
            /\ last'.result = Some([count |-> n - Len(notifications')])

C10_ClearOldTrimsExactly == [][C10_Step]_vars

\* the update() calls this step has made, in call order
NewDeliveries == SubSeq(delivered', Len(delivered) + 1, Len(delivered'))

\* the notification the notify() of this step has returned
Returned == last'.result[1]

Delivery(o, notification) == [observer |-> o, id |-> notification.id]

\* the number of update() calls on o with this notification among calls
Count(calls, o, notification) ==
    Cardinality({j \in 1..Len(calls) : calls[j] = Delivery(o, notification)})

\* C11: observer fault isolation.  A notify() on a service some of whose
\* observers raise in update() returns the notification to its caller, has
\* stored it in the log, and in the security index when its kind is security
\* or emergency, and has called update() with it on every attached observer,
\* those after a raising observer included.
C11_Step ==
    last'.op = "notify" =>
        /\ last'.result # None
        /\ Returned.message = last'.args.message
        /\ Returned.type = last'.args.type
        /\ Len(notifications') > Len(notifications)
        /\ notifications'[Len(notifications) + 1] = Returned
        /\ Returned.type \in {"security", "emergency"} =>
              /\ Len(security_alerts') > Len(security_alerts)
              /\ security_alerts'[Len(security_alerts) + 1] = Returned
        /\ \A k \in 1..Len(observers) :
              Count(NewDeliveries, observers[k], Returned) >= 1

C11_FaultIsolation == [][C11_Step]_vars

\* C11 witness: a security notification went to a raising observer and then
\* to the observer attached after it
C11_Witness ==
    /\ last.op = "notify"
    /\ last.args.type = "security"
    /\ observers = <<"raising", "plain">>
    /\ delivered = <<Delivery("raising", last.result[1]), Delivery("plain", last.result[1])>>
    /\ security_alerts = <<last.result[1]>>

\* C12: exactly-once delivery.  In every notify(), each observer that is
\* attached when the call starts and is not detached during the call has
\* update() called on it exactly once with the notification, also when
\* another observer detaches itself from inside its own update().
C12_Step ==
    last'.op = "notify" =>
        \A k \in 1..Len(observers) :
            InList(observers', observers[k]) =>
                Count(NewDeliveries, observers[k], Returned) = 1

C12_ExactlyOnce == [][C12_Step]_vars

\* the place of the notify() call that assigned this id among all notify()
\* calls (ids are not reused where no log is trimmed)
CallOrder(id) == CHOOSE k \in 1..Len(issued) : issued[k] = id

\* C13: per-observer delivery order is notify() call order.  For every
\* observer and any two notifications, the update() with the notification
\* whose notify() was called first happens first, also when an observer's
\* update() itself calls notify() on the service.
C13_DeliveryInCallOrder ==
    \A a, b \in 1..Len(delivered) :
        (a < b /\ delivered[a].observer = delivered[b].observer)
            => CallOrder(delivered[a].id) <= CallOrder(delivered[b].id)

\* the update() calls this step has made with the notification it returned
DeliveriesOfReturned ==
    LET OfReturned(d) == d.id = Returned.id
    IN  SelectSeq(NewDeliveries, OfReturned)

\* C14: fan-out follows attachment order.  attach() of an observer that is
\* not attached puts it after all attached ones, detach() leaves the others
\* in their order, and notify() calls update() with its notification on the
\* attached observers one after the other in that order.
C14_Step ==
    /\ (last'.op = "attach" /\ ~InList(observers, last'.args.observer)) =>
          observers' = observers \o <<last'.args.observer>>
    /\ last'.op = "detach" =>
          LET Others(o) == o # last'.args.observer
          IN  observers' = SelectSeq(observers, Others)
    /\ last'.op = "notify" =>
          DeliveriesOfReturned =
              [k \in 1..Len(observers) |-> Delivery(observers[k], Returned)]

C14_FanOutInAttachmentOrder == [][C14_Step]_vars

\* C14 witness: an observer was detached and attached again behind the two
\* others, and a notification has gone to the three in that order
C14_Witness ==
    /\ last.op = "notify"
    /\ observers = <<"raising", "echoing", "plain">>
    /\ Len(delivered) >= 3
    /\ delivered[1] = [observer |-> "plain", id |-> 1]
    /\ \E a, b, c \in 1..Len(delivered) :
          /\ a < b /\ b < c
          /\ delivered[a] = Delivery("raising", last.result[1])
          /\ delivered[b] = Delivery("echoing", last.result[1])
          /\ delivered[c] = Delivery("plain", last.result[1])

NoDuplicates(s) == \A a, b \in 1..Len(s) : a # b => s[a] # s[b]

\* C15: attach is idempotent and the observer list holds no duplicates.
\* After every step each observer is in the list at most once; attach() of an
\* attached observer and detach() of an unattached one change nothing;
\* detach() leaves the observer out of the list, and a notify() calls
\* update() on no observer that is not attached.
C15_Step ==
    /\ NoDuplicates(observers')
    /\ (last'.op = "attach" /\ InList(observers, last'.args.observer)) =>
          observers' = observers
    /\ last'.op = "attach" => InList(observers', last'.args.observer)
    /\ (last'.op = "detach" /\ ~InList(observers, last'.args.observer)) =>
          observers' = observers
    /\ last'.op = "detach" => ~InList(observers', last'.args.observer)
    /\ last'.op = "notify" =>
          \A j \in 1..Len(NewDeliveries) :
              InList(observers, NewDeliveries[j].observer)

C15_AttachIdempotent == [][C15_Step]_vars

\* C15 witness: an observer that took the first notification was detached,
\* and the second notification went to the observers left
C15_Witness ==
    /\ last.op = "notify"
    /\ Len(delivered) = 3
    /\ delivered[1] = [observer |-> "plain", id |-> 1]
    /\ delivered[2] = [observer |-> "raising", id |-> 1]
    /\ delivered[3] = [observer |-> "raising", id |-> 2]
    /\ observers = <<"raising">>

\* the notification an observer's record was made from
NotificationOf(r) ==
    [id |-> r.id, message |-> r.message, type |-> r.type, timestamp |-> r.timestamp]

NotificationsOf(recs) == [k \in 1..Len(recs) |-> NotificationOf(recs[k])]

\* the notifications of the log whose kind is one of kinds, in log order
OfKinds(log, kinds) ==
    LET Wanted(n) == n.type \in kinds
    IN  SelectSeq(log, Wanted)

\* C16: observers filter by kind.  With an observer of each class attached,
\* after any notify() calls the SecurityObserver holds exactly the
\* notifications of kind security or emergency, the TransactionObserver
\* those of kind transaction, the EmergencyObserver those of kind emergency,
\* each of these marked escalated; info and warning notifications are held
\* by none.
C16_ObserversFilterByKind ==
    /\ NotificationsOf(records["security"]) =
          OfKinds(notifications, {"security", "emergency"})
    /\ NotificationsOf(records["transaction"]) = OfKinds(notifications, {"transaction"})
    /\ NotificationsOf(records["emergency"]) = OfKinds(notifications, {"emergency"})
    /\ \A k \in 1..Len(records["emergency"]) :
          /\ "escalated" \in DOMAIN records["emergency"][k]
          /\ records["emergency"][k].escalated = TRUE

\* C16 witness: an emergency, a warning and a transaction have been notified
C16_Witness ==
    /\ Len(notifications) = 3
    /\ notifications[1].type = "emergency"
    /\ notifications[2].type = "warning"
    /\ notifications[3].type = "transaction"
    /\ Len(records["security"]) = 1
    /\ Len(records["transaction"]) = 1
    /\ Len(records["emergency"]) = 1

\* C17: the newest notification is retrieved first.  Right after a notify()
\* of kind emergency or security has returned, get_recent_notifications(1)
\* returns exactly that notification, and so does get_security_alerts(1),
\* whatever was notified before, an earlier notification with the same
\* timestamp included.
C17_Step ==
    (/\ last.op = "notify"
     /\ last.args.type \in {"emergency", "security"}
     /\ last'.op \in {"get_recent_notifications", "get_security_alerts"}
     /\ last'.args.limit = 1)
    => last'.result[1].entries = <<last.result[1]>>

C17_NewestFirst == [][C17_Step]_vars

\* the same, for notifications whose timestamp differs from all earlier ones
C17_Step_DistinctTimestamps ==
    (\A k \in 1..(Len(notifications) - 1) :
        notifications[k].timestamp # notifications[Len(notifications)].timestamp)
    => C17_Step

\* C18: the security-alerts index holds exactly the security and emergency
\* notifications.  A notify() of kind security or emergency appends the
\* notification it returns to the index, a notify() of another kind and every
\* other operation leave the index as it is; so the index is, in order, the
\* notifications of these two kinds.
C18_Step ==
    /\ (last'.op = "notify" /\ last'.args.type \in {"security", "emergency"}) =>
          security_alerts' = Append(security_alerts, Returned)
    /\ ~(last'.op = "notify" /\ last'.args.type \in {"security", "emergency"}) =>
          security_alerts' = security_alerts
    /\ security_alerts' = OfKinds(notifications', {"security", "emergency"})

C18_SecurityIndex == [][C18_Step]_vars

\* C18 witness: a security notification, an info and an emergency have been
\* notified, and the index holds the first and the last
C18_Witness ==
    /\ last.op = "notify"
    /\ Len(notifications) = 3
    /\ notifications[1].type = "security"
    /\ notifications[2].type = "info"
    /\ notifications[3].type = "emergency"
    /\ security_alerts = <<notifications[1], notifications[3]>>

\* C19: get_history(limit) returns only the most recent entries.  For every
\* limit >= 0 and a history of n entries it returns min(limit, n) entries,
\* those of the last min(limit, n) executed commands, the oldest first; for
\* limit 0 it returns none.
C19_Step ==
    last'.op = "get_history" =>
        LET n == Len(history)
            m == Min(last'.args.limit, n)
            got == last'.result[1].entries
        IN  /\ Len(got) = m
            /\ \A k \in 1..m :
                  /\ got[k].command = get_description(cmds[history[n - m + k].command])
                  /\ got[k].success = history[n - m + k].result.success

C19_HistoryMostRecent == [][C19_Step]_vars

\* the same, for limit >= 1
C19_Step_PositiveLimit ==
    (last'.op = "get_history" /\ last'.args.limit = 0) \/ C19_Step

\* C20: undo on an empty stack is a no-op.  CommandInvoker.undo() on a fresh
\* invoker, or after every executed command has been undone, returns None
\* and leaves the undo stack, the history, every device, every command and
\* every balance as they are.
C20_Step ==
    (last'.op = "Invoker.undo" /\ undo_stack = <<>>) =>
        /\ last'.result = None
        /\ last'.undone = <<>>
        /\ undo_stack' = <<>>
        /\ history' = history
        /\ devices' = devices
        /\ cmds' = cmds
        /\ balances' = balances
        /\ transactions' = transactions

C20_UndoOnEmptyStack == [][C20_Step]_vars

\* C20 witness: two commands were executed and both undone, and a third undo
\* returned None
C20_Witness ==
    /\ last.op = "Invoker.undo"
    /\ last.result = None
    /\ Len(history) = 2
    /\ history[1].result.success
    /\ undo_stack = <<>>
    /\ devices = DeviceOf

\* the number of times the command object cmds[i] is on the stack
OnStack(stack, i) == Cardinality({k \in 1..Len(stack) : stack[k] = i})

\* C21: there is no redo.  Every CommandInvoker.undo() on a non-empty stack
\* takes exactly one command off the stack, the one it undoes, whether that
\* undo() succeeded or failed; and nothing but an Invoker.execute of a
\* command puts it on the stack, so a command taken off is not undone by a
\* later undo() unless it is executed again.
C21_Step ==
    /\ (last'.op = "Invoker.undo" /\ undo_stack # <<>>) =>
          /\ Len(undo_stack') = Len(undo_stack) - 1
          /\ last'.undone # <<>>
          /\ OnStack(undo_stack', last'.undone[1]) =
                OnStack(undo_stack, last'.undone[1]) - 1
    /\ last'.op = "Invoker.undo" =>
          \A i \in 1..Len(cmds) :
              (last'.undone = <<i>>) => OnStack(undo_stack, i) >= 1
    /\ \A i \in 1..Len(cmds) :
          OnStack(undo_stack', i) > OnStack(undo_stack, i) =>
              (last'.op = "Invoker.execute" /\ last'.args.cmd = i)

C21_NoRedo == [][C21_Step]_vars

\* C21 witness: a command was executed with success, its undo() failed, and
\* the command is off the stack all the same
C21_Witness ==
    /\ last.op = "Invoker.undo"
    /\ last.undone # <<>>
    /\ last.result[1].success = FALSE
    /\ undo_stack = <<>>
    /\ Len(history) = 1
    /\ history[1].result.success

\* C22: in every reachable state a registered street light is Active exactly
\* when its brightness is above 0, and a registered security camera is Active
\* exactly when it is recording, whatever the controller's device methods, the
\* light commands and their undo, and the routines have done.
C22_StatusAgrees ==
    \A id \in DOMAIN devices :
        /\ devices[id].device_type = "StreetLight" =>
              (devices[id].status = ACTIVE <=> devices[id].brightness > 0)
        /\ devices[id].device_type = "SecurityCamera" =>
              (devices[id].status = ACTIVE <=> devices[id].recording)

\* the light has been dimmed to 40 and the camera switched on by a command
C22_Witness ==
    /\ "SL001" \in DOMAIN devices /\ "SC001" \in DOMAIN devices
    /\ devices["SL001"].brightness = 40 /\ devices["SL001"].status = ACTIVE
    /\ devices["SC001"].recording
    /\ \E k \in 1..Len(history) : history[k].command = 3

\* C23: set_brightness(b) with b in 0..100 returns true and leaves the
\* brightness b and the status Active exactly when b > 0; with b outside
\* 0..100 it returns false and leaves the light as it was.  set_signal(x)
\* returns true for red, yellow and green, and for any other x returns false
\* and leaves the signal as it was.
C23_Step ==
    /\ last'.op = "set_light_brightness" =>
          LET b == last'.result[1].brightness
              before == devices["SL001"]
              after == devices'["SL001"]
          IN  IF b \in 0..100
              THEN /\ last'.result[1].success
                   /\ after.brightness = b
                   /\ after.status = ACTIVE <=> b > 0
              ELSE /\ ~last'.result[1].success
                   /\ after.brightness = before.brightness
                   /\ after.status = before.status
    /\ last'.op = "set_traffic_signal" =>
          LET x == last'.result[1].signal
              before == devices["TS001"]
              after == devices'["TS001"]
          IN  IF x \in {"red", "yellow", "green"}
              THEN last'.result[1].success
              ELSE /\ ~last'.result[1].success
                   /\ after.current_signal = before.current_signal
                   /\ after.status = before.status

C23_SetterValidation == [][C23_Step]_vars

\* a level above 100 has been refused on a light that was at level 1, with
\* the signal at yellow
C23_Witness ==
    /\ last.op = "set_light_brightness"
    /\ last.result[1].brightness = 101 /\ ~last.result[1].success
    /\ devices["SL001"].brightness = 1 /\ devices["SL001"].status = ACTIVE
    /\ devices["TS001"].current_signal = "yellow"

\* the full-on state of a device of the kind of d
FullOn(d) ==
    CASE d.device_type = "StreetLight"    -> d.brightness = 100
      [] d.device_type = "TrafficSignal"  -> d.current_signal = "green"
      [] d.device_type = "SecurityCamera" -> d.recording

\* C24: for every device kind and every prior state, activate() returns true
\* and leaves the device Active and full on, deactivate() returns true and
\* leaves it Inactive, and a second call of the same method changes nothing.
C24_Step ==
    /\ last'.op = "activate_device" =>
          LET after == devices'[last'.args.device_id]
          IN  /\ last'.result[1].success
              /\ after.status = ACTIVE
              /\ FullOn(after)
              /\ activate(after) = after
    /\ last'.op = "deactivate_device" =>
          LET after == devices'[last'.args.device_id]
          IN  /\ last'.result[1].success
              /\ after.status = INACTIVE
              /\ deactivate(after) = after

C24_ActivateDeactivate == [][C24_Step]_vars

\* the light has just been activated and stands at 100, with the signal set
\* to yellow and the camera off
C24_Witness ==
    /\ last.op = "activate_device" /\ last.args.device_id = "SL001"
    /\ devices["SL001"].brightness = 100
    /\ devices["TS001"].current_signal = "yellow"
    /\ devices["SC001"].status = INACTIVE

\* the registry apart from the entry of id
Others(devs, id) == [x \in DOMAIN devs \ {id} |-> devs[x]]

\* C25: register_device(d) returns false and leaves the registry as it was,
\* the device registered before still bound to the id, when d's id is
\* present, and returns true and adds d otherwise; unregister_device(id)
\* returns true and removes the device when present, and returns false and
\* changes nothing when absent; get_device(id) returns the registered device
\* or nothing.
C25_Step ==
    /\ last'.op = "register_device" =>
          LET id == last'.args.device_id
          IN  IF id \in DOMAIN devices
              THEN ~last'.result[1].ok /\ devices' = devices
              ELSE /\ last'.result[1].ok
                   /\ DOMAIN devices' = DOMAIN devices \cup {id}
                   /\ devices'[id] = DeviceOf[id]
                   /\ Others(devices', id) = devices
    /\ last'.op = "unregister_device" =>
          LET id == last'.args.device_id
          IN  IF id \in DOMAIN devices
              THEN last'.result[1].ok /\ devices' = Others(devices, id)
              ELSE ~last'.result[1].ok /\ devices' = devices
    /\ last'.op = "get_device" =>
          LET id == last'.args.device_id
          IN  /\ devices' = devices
              /\ last'.result = IF id \in DOMAIN devices
                                THEN <<devices[id]>> ELSE <<>>

C25_RegistryKeyedById == [][C25_Step]_vars

\* a second registration under SL001 has been refused while the light bound
\* to that id stands at level 40
C25_Witness ==
    /\ last.op = "register_device" /\ last.args.device_id = "SL001"
    /\ ~last.result[1].ok
    /\ "SL001" \in DOMAIN devices /\ devices["SL001"].brightness = 40
    /\ "TS001" \notin DOMAIN devices

\* the operations of CityController that C30 names
ControllerOps ==
    {"register_device", "unregister_device", "execute_command",
     "activate_device", "deactivate_device", "set_traffic_signal",
     "set_light_brightness"}

\* C30: after every CityController operation returns, stats.active_devices
\* equals the number of registered devices whose status is Active.
C30_ActiveCounter ==
    last.op \in ControllerOps =>
        stats.active_devices =
            Cardinality({id \in DOMAIN devices : devices[id].status = ACTIVE})

\* the same, for the operations that end with _update_active_count
C30_AfterRecount ==
    \/ last.op \notin ControllerOps
    \/ last.op \in {"set_traffic_signal", "set_light_brightness"}
    \/ (last.op \in {"register_device", "unregister_device"} /\ ~last.result[1].ok)
    \/ (last.op \in {"activate_device", "deactivate_device"} /\ ~last.result[1].success)
    \/ stats.active_devices =
          Cardinality({id \in DOMAIN devices : devices[id].status = ACTIVE})

\* the call recorded in c is a successful Invoker.execute of a LightOnCommand
TurnedOn(c) ==
    /\ c.op = "Invoker.execute"
    /\ cmds[c.args.cmd].kind = "LightOn"
    /\ c.result[1].success

\* what C26 says of one step, with the brightness the result reports compared
\* to the light's brightness when Reported holds
C26_StepOf(Reported(_)) ==
    /\ TurnedOn(last') =>
          LET light == devices'[cmds[last'.args.cmd].device_id]
          IN  /\ last'.result[1].action = "light_on"
              /\ Reported(last'.result[1].brightness) =>
                    /\ light.status = ACTIVE
                    /\ light.brightness = last'.result[1].brightness
    /\ (TurnedOn(last) /\ last'.op = "get_history") =>
          LET got == last'.result[1].entries
          IN  /\ Len(got) = 1
              /\ got[1].command = get_description(cmds[last.args.cmd])
              /\ got[1].success
    /\ (TurnedOn(last) /\ last'.op = "Invoker.undo") =>
          /\ last'.undone = <<last.args.cmd>>
          /\ devices'[cmds[last.args.cmd].device_id].status = INACTIVE

AnyLevel(b) == TRUE
LevelInRange(b) == 1 <= b /\ b <= 100

\* C26: for every registered street light and every brightness the command
\* was built with, after execute(LightOnCommand) returns success the light is
\* Active and its brightness equals the brightness field of the result (with
\* action "light_on"), get_history(1) then returns exactly that one entry,
\* and a following undo() leaves the light Inactive.
C26_Step == C26_StepOf(AnyLevel)

C26_TurnOnReports == [][C26_Step]_vars

\* the same, for commands built with a brightness in 1..100
C26_Step_LevelInRange == C26_StepOf(LevelInRange)

C26_TurnOnReports_LevelInRange == [][C26_Step_LevelInRange]_vars

\* the undo snapshot a command object holds
Snapshot(c) ==
    CASE c.kind = "LightOn"  -> c.previous_state
      [] c.kind = "LightOff" -> c.previous_brightness
      [] c.kind \in {"TrafficGreen", "TrafficRed"} -> c.previous_signal

\* the command object cmds[i] has been executed with success before
ExecutedBefore(i) ==
    \E k \in 1..Len(history) : history[k].command = i /\ history[k].result.success

\* C29: a command's undo snapshot is captured on its first execution only:
\* when the same command object is executed again, the saved previous state
\* stays what the first execution saved, so that undo() restores the state
\* the device had before the first execution.
C29_Step ==
    (last'.op = "Invoker.execute" /\ ExecutedBefore(last'.args.cmd)) =>
        Snapshot(cmds'[last'.args.cmd]) = Snapshot(cmds[last'.args.cmd])

C29_SnapshotOnFirstExecution == [][C29_Step]_vars

\* what a reader holds is torn: a level above 0 with the status Inactive, or
\* level 0 with the status Active
Torn(o) ==
    \/ o.brightness > 0 /\ o.status = INACTIVE
    \/ o.brightness = 0 /\ o.status = ACTIVE

\* C27: when one request handler changes a street light while another reads
\* it, the reader never observes brightness > 0 with the status Inactive,
\* nor brightness 0 with the status Active.
C27_NoTornReads ==
    last.op = "get_status_info" => ~Torn(last.result[1])

\* the same, for the reads that no write fell inside
C27_SerialReads ==
    (last.op = "get_status_info" /\ ~last.args.overlapped) => ~Torn(last.result[1])

\* C28: when two request handlers call notify() on the same service
\* concurrently, the two notifications receive distinct ids and both are
\* stored in the log.
C28_DistinctIds ==
    /\ \A i, j \in 1..Len(notifications) :
          i # j => notifications[i].id # notifications[j].id
    /\ last.op = "notify" =>
          \E k \in 1..Len(notifications) : notifications[k] = last.result[1]

\* the same, for a call that no other call overlapped: its notification is
\* in the log and no other entry has its id
C28_SerialCalls ==
    (last.op = "notify" /\ ~last.args.overlapped) =>
        Cardinality({k \in 1..Len(notifications) :
                        notifications[k].id = last.result[1].id}) = 1

\* C31: under any interleaving of CityController() and get_instance() calls
\* all callers obtain the same instance, the instance's registry is
\* initialised exactly once, and a device a caller registered is never wiped
\* by another caller's construction.
C31_Step ==
    /\ last'.op \in {"CityController", "get_instance"} =>
          /\ ~last'.result[1].raised
          /\ last'.result[1].instance = 1
    /\ singleton'.created <= 1
    /\ singleton'.inits <= 1
    /\ DOMAIN devices \subseteq DOMAIN devices'

C31_SingletonInitialisedOnce == [][C31_Step]_vars

\* C32: after execute_command(c) changed a device, the next
\* undo_last_command() restores that device to its state before c; with an
\* empty command history it returns None and changes nothing.
C32_Step ==
    last'.op = "undo_last_command" =>
        /\ (last.op = "execute_command" /\ rt[1].pre # devices) =>
              devices' = rt[1].pre
        /\ command_history = <<>> =>
              /\ last'.result = None
              /\ UNCHANGED <<devVars, cmdVars, bankVars, notifVars, ctlVars>>

C32_UndoLastCommand == [][C32_Step]_vars

\* the same, for the empty command history alone
C32_Step_EmptyHistory ==
    (last'.op = "undo_last_command" /\ command_history = <<>>) =>
        /\ last'.result = None
        /\ UNCHANGED <<devVars, cmdVars, bankVars, notifVars, ctlVars>>

C32_UndoLastCommand_EmptyHistory == [][C32_Step_EmptyHistory]_vars

\* the keys notify() gives a notification
NotificationKeys == {"id", "message", "type", "timestamp"}

\* the keys the three observers add to their own copies
CopyKeys == {"processed_at", "status", "escalated", "escalated_at"}

\* the observer's copy c is the notification n with keys of its own added
C33_CopyOf(c, n) ==
    /\ NotificationKeys \subseteq DOMAIN c
    /\ DOMAIN c \ NotificationKeys \subseteq CopyKeys
    /\ DOMAIN c # NotificationKeys
    /\ \A f \in NotificationKeys : c[f] = n[f]

C33_Step ==
    (last'.op = "notify" /\ notifications' # notifications) =>
        LET n == [id |-> NextId(notifications), message |-> last'.args.message,
                  type |-> last'.args.type, timestamp |-> clock']
        IN  /\ notifications' = Append(notifications, n)
            /\ security_alerts' = IF n.type \in {"security", "emergency"}
                                  THEN Append(security_alerts, n)
                                  ELSE security_alerts
            /\ last'.result = Some(n)
            /\ \A o \in {"security", "transaction", "emergency"} :
                  /\ Len(records'[o]) >= Len(records[o])
                  /\ \A k \in 1..Len(records'[o]) :
                        IF k <= Len(records[o])
                        THEN records'[o][k] = records[o][k]
                        ELSE C33_CopyOf(records'[o][k], n)

\* C33: delivering a notification to SecurityObserver, TransactionObserver
\* and EmergencyObserver leaves the record in the subject's log, the record
\* in the security index and the value notify() returns as notify() built
\* them, with the keys id, message, type and timestamp only; the keys
\* escalated, escalated_at, processed_at and status exist only in the copies
\* the observers keep, and the copies already kept do not change.
C33_StoredNotificationsImmutable == [][C33_Step]_vars

\* an emergency notification has gone to all three observers: the security
\* and the emergency observer each keep a marked copy of it, and the log, the
\* index and the returned value hold it unmarked
C33_Witness ==
    /\ last.op = "notify"
    /\ last.args.type = "emergency"
    /\ observers = <<"security", "transaction", "emergency">>
    /\ records["emergency"] # <<>>
    /\ LastOf(records["emergency"]).escalated
    /\ LastOf(records["emergency"]).id = last.result[1].id
    /\ records["security"] # <<>>
    /\ LastOf(records["security"]).status = "received"
    /\ LastOf(records["security"]).id = last.result[1].id
    /\ LastOf(notifications) = last.result[1]
    /\ LastOf(security_alerts) = last.result[1]
    /\ DOMAIN last.result[1] = NotificationKeys

C34_Step ==
    (last'.op = "clear_old_notifications" /\ last' # last) =>
        /\ notifications' = clear_old(notifications, last'.args.keep_count).log
        /\ security_alerts' = security_alerts
        /\ observers' = observers
        /\ records' = records

\* C34: clear_old_notifications changes only the main log: the security
\* index, the list of attached observers and what every observer has
\* recorded are after the call what they were before it.
C34_TrimChangesOnlyTheLog == [][C34_Step]_vars

\* get_security_alerts has returned an alert that a trim has taken out of
\* the log, and the security observer still holds its copy of that alert
C34_Witness ==
    /\ last.op = "get_security_alerts"
    /\ last.result # <<>>
    /\ \E k \in 1..Len(last.result[1].entries) :
          LET a == last.result[1].entries[k]
          IN  /\ ~InList(notifications, a)
              /\ InList(security_alerts, a)
              /\ \E j \in 1..Len(records["security"]) :
                    records["security"][j].id = a.id
    /\ Len(notifications) < Len(issued)

C35_Step ==
    (last'.op = "control_device" /\ <<ctlVars, notifVars, last>>' # <<ctlVars, notifVars, last>>) =>
        IF last'.args.action \in ControlActions
        THEN /\ Len(command_history') = Len(command_history) + 1
             /\ Front(command_history') = command_history
             /\ LastOf(command_history').command =
                    ClassName(ControlCommand(last'.args.device_id, last'.args.action))
             /\ stats'.total_commands = stats.total_commands + 1
             /\ Len(notifications') = Len(notifications) + 1
             /\ Front(notifications') = notifications
             /\ LastOf(notifications').type = "info"
             /\ LastOf(notifications').message =
                    <<"Device ", last'.args.device_id, ": ", last'.args.action>>
             /\ Len(issued') = Len(issued) + 1
             /\ last'.result[1].code = 200
             /\ LastOf(command_history').success = last'.result[1].result.success
        ELSE /\ UNCHANGED <<ctlVars, notifVars, devVars>>
             /\ last'.result[1].code = 400

\* C35: every control request with a valid action (on, off, green, red)
\* appends exactly one command-history entry, adds one to total_commands
\* and emits exactly one info notification, whether the command succeeded
\* or reported the device as not found; total_commands equals the length
\* of the command history in every state; a request with any other action
\* is counted and announced not at all.
C35_CountedAndAnnouncedOnce ==
    /\ [](stats.total_commands = Len(command_history))
    /\ [][C35_Step]_vars

\* two valid requests have run, the later for a device that is not
\* registered: both are in the history and both were announced
C35_Witness ==
    /\ last.op = "control_device"
    /\ last.args.device_id = AbsentId
    /\ last.args.action \in ControlActions
    /\ ~last.result[1].result.success
    /\ Len(command_history) = 2
    /\ command_history[1].success
    /\ ~command_history[2].success
    /\ stats.total_commands = 2
    /\ Len(notifications) = 2
    /\ \A k \in 1..2 : notifications[k].type = "info"

C36_Step ==
    (last'.op = "DailyRoutineTemplate.execute") =>
        LET f == last'.args.faulty
        IN  /\ last'.result # None
            /\ LET res == last'.result[1]
               IN  /\ res.called = SubSeq(Steps, 1, IF f = 0 THEN Len(Steps) ELSE f)
                   /\ res.success <=> f = 0
                   /\ res.success =>
                         /\ res.called = Steps
                         /\ LastOf(res.log) = <<"Routine completed successfully">>
                         /\ Len(res.log) = Len(Steps) + 1
                   /\ ~res.success =>
                         /\ res.error = FaultIn(Steps[f])
                         /\ LastOf(res.log) = <<"Error: ", FaultIn(Steps[f])>>
                         /\ Len(res.log) = f + 1
                   /\ devices' = IF f \in {1, 2} THEN devices
                                 ELSE execute_main_operations(last'.args.routine, devices,
                                                              last'.args.current_hour)

RefundedNow(k) ==
    /\ transactions[k].status = "completed"
    /\ transactions'[k].status = "refunded"

\* the transaction a ProcessPaymentCommand holds is completed
HoldsCompleted(c) ==
    /\ ~IsNone(c.transaction_id)
    /\ c.transaction_id[1] \in 1..Len(transactions)
    /\ transactions[c.transaction_id[1]].status = "completed"

\* a transaction changes in no way but from completed to refunded; a step
\* that records no payment changes a balance only by crediting the total of
\* the one transaction it refunds; a refund call succeeds exactly when the
\* transaction is there and completed
C37_Step_Once ==
    /\ Len(transactions') >= Len(transactions)
    /\ \A k \in 1..Len(transactions) :
          transactions'[k] # transactions[k] =>
              /\ RefundedNow(k)
              /\ transactions'[k] = [transactions[k] EXCEPT !.status = "refunded"]
    /\ Len(transactions') = Len(transactions) =>
          \A r \in Residents :
              LET hit == {k \in 1..Len(transactions) :
                             RefundedNow(k) /\ transactions[k].resident_id = r}
              IN  IF hit = {} THEN balances'[r] = balances[r]
                  ELSE \E k \in hit :
                          /\ hit = {k}
                          /\ balances'[r] = FloatAdd(balances[r],
                                                     get_total(transactions[k]))
    /\ last'.op = "refund_transaction" =>
          (last'.result[1].success <=>
              /\ last'.args.transaction_id \in 1..Len(transactions)
              /\ transactions[last'.args.transaction_id].status = "completed")
    /\ (last'.op = "Command.undo" /\ cmds[last'.args.cmd].kind = "ProcessPayment") =>
          (last'.result[1].success <=> HoldsCompleted(cmds[last'.args.cmd]))

\* a refund called right after the payment it refunds puts the balances
\* back to what the payment found
C37_Step_Restores ==
    ( /\ last'.op = "refund_transaction"
      /\ last'.result[1].success
      /\ ~IsNone(rt)
      /\ "transaction_id" \in DOMAIN rt[1]
      /\ ~rt[1].undone
      /\ rt[1].transaction_id = last'.args.transaction_id ) =>
        balances' = rt[1].balances

\* C37: a payment is refunded at most once: only a completed transaction is
\* refunded, its amount plus fee is credited to the resident's balance at
\* most once, the first refund of a completed payment restores the balance
\* to its value before the payment, and every later refund returns success
\* false and leaves the balance unchanged.
C37_RefundedAtMostOnce == [][C37_Step_Once /\ C37_Step_Restores]_vars

\* the part of C37 that holds: everything but the restored balance
C37_RefundedAtMostOnce_Once == [][C37_Step_Once]_vars

\* a second refund of a transaction has been refused
C37_RefundedAtMostOnce_Refused ==
    /\ last.op = "refund_transaction"
    /\ ~last.result[1].success
    /\ last.args.transaction_id \in 1..Len(transactions)
    /\ transactions[last.args.transaction_id].status = "refunded"

\* amount + fee as process_payment computes it
TotalOf(amount, payment_type) ==
    FloatAdd(FloatOf(amount), FloatMul(FloatOf(amount), FeeRate(payment_type)))

C38_Step ==
    ( /\ last'.op = "process_payment"
      /\ FloatLess(BalanceOf(balances, last'.args.resident_id),
                   TotalOf(last'.args.amount, last'.args.payment_type)) ) =>
        /\ ~last'.result[1].success
        /\ last'.result[1].error = <<"Insufficient funds">>
        /\ balances' = balances
        /\ transactions' = transactions

\* C38: under payments and refunds of non-negative amounts, from a balance
\* that is not negative, no resident's balance is ever negative; a payment
\* whose amount plus fee exceeds the balance returns success false with the
\* error "Insufficient funds", leaves the balance as it is and records no
\* transaction.
C38_NeverOverdrawn ==
    /\ [](\A r \in DOMAIN balances : ~balances[r].neg)
    /\ [][C38_Step]_vars

\* after a payment of 600 a second payment of 600 has been refused: the
\* balance is what the first payment left and one transaction is recorded
C38_Witness ==
    /\ last.op = "process_payment"
    /\ last.args.amount = 600
    /\ ~last.result[1].success
    /\ last.result[1].error = <<"Insufficient funds">>
    /\ Len(transactions) = 1
    /\ transactions[1].status = "completed"
    /\ transactions[1].amount = 600
    /\ FloatLess(balances["R001"], FloatOf(600))
    /\ ~balances["R001"].neg

\* the account is locked at the time of the call this step makes
C39_Locked == is_locked_out(auth, clock')

\* a call made while the account is locked fails with the locked error,
\* whatever the password, and changes nothing
C39_Step_Window ==
    (last'.op = "authenticate" /\ C39_Locked) =>
        /\ ~last'.result[1].success
        /\ last'.result[1].error = <<"Account locked due to too many failed attempts">>
        /\ auth' = auth

\* the fifth wrong password in a row locks the account for fifteen minutes
C39_Step_Fifth ==
    (last'.op = "authenticate" /\ ~C39_Locked /\ ~last'.args.correct
        /\ auth.streak + 1 >= LockoutAttempts) =>
        auth'.lockout_time = Some(clock' + LockoutMinutes)

\* a successful call sets the count of failed attempts to 0
C39_Step_Reset ==
    (last'.op = "authenticate" /\ last'.result[1].success) =>
        /\ ~C39_Locked /\ last'.args.correct
        /\ auth'.failed_attempts = Some(0)

\* the account is locked by nothing less than the fifth wrong password since
\* the last success or the last lockout
C39_Step_FiveAgain ==
    (last'.op = "authenticate" /\ auth'.lockout_time # auth.lockout_time) =>
        auth.streak + 1 >= LockoutAttempts

\* C39: once a registered user has 5 failed authenticate() calls with no
\* successful one in between, every authenticate() during the following 15
\* minutes fails with the account-locked error even with the correct
\* password; a successful authenticate sets the failed-attempt count to 0;
\* and after a lockout window has expired the user again has 5 failed
\* attempts before the account is locked again.
C39_Lockout ==
    [][C39_Step_Window /\ C39_Step_Fifth /\ C39_Step_Reset /\ C39_Step_FiveAgain]_vars

\* the part of C39 that holds: the window, the fifth failure and the reset
C39_Lockout_Window == [][C39_Step_Window /\ C39_Step_Fifth /\ C39_Step_Reset]_vars

\* the right password has been refused inside a lockout window
C39_Lockout_Refused ==
    /\ last.op = "authenticate"
    /\ last.args.correct
    /\ ~last.result[1].success
    /\ is_locked_out(auth, clock)
    /\ auth.failed_attempts = Some(LockoutAttempts)

====
